---- MODULE Spec2Model ----
(***************************************************************************)
(* The medallion pipeline of src/src/sqlite-medallion-solution.py          *)
(* (class MedallionPipeline): the three tables of the SQLite store and     *)
(* the three stage methods process_bronze_layer, process_silver_layer and  *)
(* process_gold_layer, with export_data, each one atomic step (the pipeline *)
(* is single-threaded, every stage opens and closes its own connection).   *)
(* With it, the CSV loader ingest_data of src/sqlite_pipeline/bronze.py,   *)
(* which fills the bronze table of a database of its own, and the          *)
(* orchestrator run_pipeline with the command main, one step per stage.    *)
(*                                                                         *)
(* Representation                                                          *)
(*   - a table is the set of its rows; a row is a record.  The PRIMARY KEY *)
(*     of a table is not built into the representation: two rows with the  *)
(*     same key and different fields can sit in the set, and it is the     *)
(*     insert (to_sql) that rejects them, as SQLite does.                  *)
(*   - text columns are strings; Python None / SQL NULL is the string NULL.*)
(*   - customer_id is a sequence of characters, so that startswith is      *)
(*     computed; a bronze timestamp is a sequence of its blank-separated   *)
(*     parts, <<date, time>> when well formed.                             *)
(*   - amounts are whole currency units (integers); avg_amount is the      *)
(*     exact quotient as a reduced fraction <<numerator, denominator>>.    *)
(*   - validation_status is the sequence of the fragments the code         *)
(*     concatenates ("WARNING: ", the messages, the "; " separators).      *)
(*   - the pass-through column merchant and the audit columns              *)
(*     (ingestion_timestamp, source_file, processing_timestamp,            *)
(*     bronze_ingestion_timestamp) are left out: no stage reads them.      *)
(***************************************************************************)
EXTENDS Integers, Sequences, FiniteSets, Bags, TLC

VARIABLES
    bronze_transactions,   \* rows of table bronze_transactions
    silver_transactions,   \* rows of table silver_transactions
    gold_daily_summary,    \* rows of table gold_daily_summary
    bronze_raw,            \* rows of bronze_transactions in the package's bronze_raw.db
    last_call,             \* the stage method that ran last ("none" at start)
    returned,              \* the boolean that call returned
    store_fault,           \* whether the store rejected an operation of that call
    written,               \* the number of rows that call wrote (the count it logs)
    input_df,              \* the batch the last recorded bronze load read
    arrived_late,          \* ids of the silver rows appended with a date at or
                           \* before the frontier gold had at that time
    raised,                \* whether that call let an exception reach its caller
    run,                   \* the run_pipeline call in progress or last finished
    silver_raw,            \* rows of silver_transactions in the package's silver_raw.db
    gold_raw,              \* rows of gold_daily_summary in the package's gold_raw.db,
                           \* a bag: its key does not keep rows with NULL apart
    script,                \* the run of the script sqlite_pipeline/run_pipeline.py
    upload,                \* the _upload_with_retry call in progress or last finished
    workers                \* the stage calls of two pipeline processes on one store

vars == <<bronze_transactions, silver_transactions, gold_daily_summary,
          bronze_raw, last_call, returned, store_fault, written, input_df,
          arrived_late, raised, run, silver_raw, gold_raw, script, upload, workers>>

tables == <<bronze_transactions, silver_transactions, gold_daily_summary>>

\* The state of the programs beside MedallionPipeline: the package's silver
\* and gold databases with its script, the S3 uploader, and the bookkeeping
\* of two pipeline processes sharing the store.
beside == <<silver_raw, gold_raw, script, upload, workers>>

\* The state of MedallionPipeline and the bronze loaders.
medallion == <<bronze_transactions, silver_transactions, gold_daily_summary,
               bronze_raw, last_call, returned, store_fault, written, input_df,
               arrived_late, raised, run>>

-----------------------------------------------------------------------------
(* Bounds and input domains                                                *)

\* Longest input batch (rows of one parquet file) the model reads.
MaxBatch == 2

\* Most copies of one row the package's gold table is let grow to.
MaxCopies == 2

\* Greatest retry_attempts the uploader is built with (the default is 3).
MaxRetryAttempts == 3

NULL == "<NULL>"

TransactionIds == {"T1", "T2"}

\* ISO dates in calendar order: SQLite compares them as TEXT, and on
\* 'YYYY-MM-DD' strings that is the order of this sequence.
Dates == <<"2024-01-01", "2024-01-02">>

CUST1 == <<"C", "U", "S", "T", "1">>
CUST2 == <<"C", "U", "S", "T", "2">>
NotCust == <<"X", "9">>
NullCust == <<NULL>>

GoodTs(d) == <<d, "10:30:00">>
BadTs == <<"not-a-timestamp">>
NullTs == <<NULL>>

BronzeRow(id, cust, ts, amt, type, cat, st) ==
    [transaction_id |-> id, customer_id |-> cust, timestamp |-> ts,
     amount |-> amt, transaction_type |-> type, category |-> cat,
     status |-> st]

\* The rows the pipeline-level specification draws batches from, per id:
\* a valid purchase, a refund with a positive amount, two valid purchases
\* of a later date with empty and NULL category, and a row whose status is
\* missing.
PoolRows(id) ==
    { BronzeRow(id, CUST1, GoodTs(Dates[1]), 20, "purchase", "food", "completed"),
      BronzeRow(id, CUST2, GoodTs(Dates[1]), 15, "refund", "food", "completed"),
      BronzeRow(id, CUST1, GoodTs(Dates[2]), 15, "purchase", "", "completed"),
      BronzeRow(id, CUST1, GoodTs(Dates[2]), 20, "purchase", NULL, "completed"),
      BronzeRow(id, CUST1, GoodTs(Dates[1]), 20, "purchase", "food", NULL) }

Pool == UNION { PoolRows(id) : id \in TransactionIds }

\* The rows the bronze-only specification draws batches from: the loaders
\* read no column but transaction_id (and, for the CSV, category), so two
\* rows per id tell kept rows from dropped ones.
BronzePool ==
    UNION { { BronzeRow(id, CUST1, GoodTs(Dates[1]), 20, "purchase", "food", "completed"),
              BronzeRow(id, CUST1, GoodTs(Dates[1]), 15, "purchase", " ", "completed") } :
            id \in TransactionIds }

\* The rows the orchestrator specification draws batches from: a valid
\* purchase of each date and a row whose status is missing.
PipelinePool ==
    { BronzeRow("T1", CUST1, GoodTs(Dates[1]), 20, "purchase", "food", "completed"),
      BronzeRow("T2", CUST1, GoodTs(Dates[2]), 15, "purchase", "", "completed"),
      BronzeRow("T2", CUST1, GoodTs(Dates[1]), 20, "purchase", "food", NULL) }

\* The rows of the CSV files the package's script reads: two valid
\* purchases, one of them without category, and a row whose timestamp
\* pd.to_datetime cannot parse.
PackagePool ==
    { BronzeRow("T1", CUST1, GoodTs(Dates[1]), 20, "purchase", "food", "completed"),
      BronzeRow("T2", CUST1, GoodTs(Dates[1]), 15, "purchase", "", "completed"),
      BronzeRow("T2", CUST1, BadTs, 15, "purchase", "food", "completed") }

RECURSIVE SeqsUpTo(_, _)
SeqsUpTo(S, n) ==
    IF n = 0 THEN { <<>> }
    ELSE LET shorter == SeqsUpTo(S, n - 1)
         IN  shorter \cup { Append(s, x) : s \in { t \in shorter : Len(t) = n - 1 }, x \in S }

Batches == SeqsUpTo(Pool, MaxBatch)

BronzeBatches == SeqsUpTo(BronzePool, MaxBatch)

PipelineBatches == SeqsUpTo(PipelinePool, MaxBatch)

PackageBatches == SeqsUpTo(PackagePool, MaxBatch)

\* Every combination of field values, for the row-level specification.
AllRows ==
    { BronzeRow("T1", cust, ts, amt, type, cat, st) :
        cust \in {CUST1, NotCust, NullCust},
        ts \in {GoodTs(Dates[1]), BadTs, NullTs},
        amt \in {-5, 0, 15},
        type \in {"purchase", "refund", "Refund"},
        cat \in {"food", ""},
        st \in {"completed", "Pending", "unknown_value", NULL} }

-----------------------------------------------------------------------------
(* The store: keys and inserts                                             *)

Ids(table) == { r.transaction_id : r \in table }

RowsOf(df) == { df[i] : i \in 1..Len(df) }

\* Mutant: the table is declared without PRIMARY KEY, no append is rejected.
no_primary_key(table, rows) == FALSE

\* pandas to_sql(if_exists='append') into a table whose transaction_id is
\* the PRIMARY KEY: SQLite rejects the whole statement (IntegrityError) when
\* a key of the new rows is already stored or occurs twice among them.
PrimaryKeyViolation(table, rows) ==
    \/ \E r \in rows : r.transaction_id \in Ids(table)
    \/ \E r, q \in rows : r # q /\ r.transaction_id = q.transaction_id

\* Mutant: to_sql(if_exists='replace'), the table becomes the new rows.
to_sql_replace(table, rows) == rows

to_sql(table, rows) == table \cup rows

-----------------------------------------------------------------------------
(* process_bronze_layer                                                    *)

\* Mutant: keep='last'.
drop_duplicates_keep_last(df) ==
    { df[i] : i \in { k \in 1..Len(df) :
                        \A j \in (k + 1)..Len(df) :
                            df[j].transaction_id # df[k].transaction_id } }

\* df.drop_duplicates(subset=['transaction_id'], keep='first')
drop_duplicates(df) ==
    { df[i] : i \in { k \in 1..Len(df) :
                        \A j \in 1..(k - 1) : df[j].transaction_id # df[k].transaction_id } }

\* SELECT transaction_id FROM bronze_transactions
existing_ids(bronze) == Ids(bronze)

\* Mutant: the stored ids are not filtered out.
new_records_unfiltered(bronze, df) == drop_duplicates(df)

\* df[~df['transaction_id'].isin(existing_ids)]
new_records(bronze, df) ==
    { r \in drop_duplicates(df) : r.transaction_id \notin existing_ids(bronze) }

\* Mutant: the batch is appended as read, to a table that checks no key.
bronze_outcome_append_all(bronze, df, store_ok) ==
    IF ~store_ok
    THEN [rows |-> bronze, ok |-> FALSE, n |-> 0]
    ELSE [rows |-> bronze \cup RowsOf(df), ok |-> TRUE, n |-> Len(df)]

\* The outcome of one load of batch df into table bronze: the rows of the
\* table afterwards, the value returned and the number of rows inserted.
\* store_ok is FALSE when the store rejects a statement of the call; every
\* exception reaches the except branch, which returns False, and nothing
\* of the call is committed.
bronze_outcome(bronze, df, store_ok) ==
    LET new == new_records(bronze, df)
    IN  IF ~store_ok
        THEN [rows |-> bronze, ok |-> FALSE, n |-> 0]
        ELSE IF new = {}
        THEN [rows |-> bronze, ok |-> TRUE, n |-> 0]
        ELSE IF PrimaryKeyViolation(bronze, new)
        THEN [rows |-> bronze, ok |-> FALSE, n |-> 0]
        ELSE [rows |-> to_sql(bronze, new), ok |-> TRUE, n |-> Cardinality(new)]

process_bronze_layer(df, store_ok) ==
    LET out == bronze_outcome(bronze_transactions, df, store_ok)
    IN  /\ bronze_transactions' = out.rows
        /\ returned' = out.ok
        /\ written' = out.n
        /\ store_fault' = ~store_ok
        /\ raised' = FALSE
        /\ last_call' = "bronze"
        /\ UNCHANGED <<silver_transactions, gold_daily_summary, bronze_raw, arrived_late>>

\* The columns a batch is expected to carry.
RequiredColumns ==
    {"transaction_id", "customer_id", "timestamp", "amount", "transaction_type",
     "merchant", "category", "status"}

\* The row to_sql stores for a frame row when the frame has no column
\* `column`: the INSERT names the frame's columns only, and the table's
\* column, which no constraint guards, is left NULL.
without_column(row, column) ==
    CASE column = "customer_id" -> [row EXCEPT !.customer_id = NullCust]
      [] column = "timestamp" -> [row EXCEPT !.timestamp = NullTs]
      [] column = "transaction_type" -> [row EXCEPT !.transaction_type = NULL]
      [] column = "category" -> [row EXCEPT !.category = NULL]
      [] column = "status" -> [row EXCEPT !.status = NULL]

\* One load of a parquet file whose frame lacks `column`.  The method tests
\* no column: df['transaction_id'] raises KeyError when that column is the
\* missing one, and the except branch returns False; any other column is
\* never read, and the load goes on as for a full frame.
missing_column_outcome(bronze, df, column) ==
    IF column = "transaction_id"
    THEN [rows |-> bronze, ok |-> FALSE, n |-> 0]
    ELSE bronze_outcome(bronze, [i \in DOMAIN df |-> without_column(df[i], column)], TRUE)

process_bronze_layer_missing_column(df, column) ==
    LET out == missing_column_outcome(bronze_transactions, df, column)
    IN  /\ bronze_transactions' = out.rows
        /\ returned' = out.ok
        /\ written' = out.n
        /\ store_fault' = FALSE
        /\ raised' = FALSE
        /\ last_call' = "bronze"
        /\ UNCHANGED <<silver_transactions, gold_daily_summary, bronze_raw, arrived_late>>

\* pd.read_parquet raises (file missing or not a parquet file): the except
\* branch returns False before anything is written.
process_bronze_layer_unreadable ==
    /\ returned' = FALSE
    /\ written' = 0
    /\ store_fault' = FALSE
    /\ raised' = FALSE
    /\ last_call' = "bronze"
    /\ UNCHANGED <<tables, bronze_raw, input_df, arrived_late>>

-----------------------------------------------------------------------------
(* ingest_data (sqlite_pipeline/bronze.py)                                 *)

\* str.strip() on the category strings of the model.
strip(s) == IF s = " " THEN "" ELSE s

\* The tuple bound to the INSERT: the category stripped, None when empty.
csv_row(row) ==
    [row EXCEPT !.category = IF strip(row.category) = "" THEN NULL
                             ELSE strip(row.category)]

\* Mutant: INSERT OR REPLACE.
insert_row_or_replace(table, row) ==
    { r \in table : r.transaction_id # row.transaction_id } \cup {csv_row(row)}

\* One INSERT INTO bronze_transactions; sqlite3.IntegrityError (the id is
\* stored already) is caught and the row skipped.
insert_row(table, row) ==
    IF row.transaction_id \in Ids(table) THEN table
    ELSE table \cup {csv_row(row)}

\* for row in reader: cursor.execute(INSERT ...)
RECURSIVE insert_rows(_, _)
insert_rows(table, csv) ==
    IF csv = <<>> THEN table
    ELSE insert_rows(insert_row(table, Head(csv)), Tail(csv))

\* The outcome of one ingest_data call on a CSV file with the required
\* columns; a store fault raises, nothing is committed and False returns.
ingest_outcome(table, csv, store_ok) ==
    IF ~store_ok
    THEN [rows |-> table, ok |-> FALSE, n |-> 0]
    ELSE [rows |-> insert_rows(table, csv), ok |-> TRUE,
          n |-> Cardinality(insert_rows(table, csv)) - Cardinality(table)]

ingest_data(csv, store_ok) ==
    LET out == ingest_outcome(bronze_raw, csv, store_ok)
    IN  /\ bronze_raw' = out.rows
        /\ returned' = out.ok
        /\ written' = out.n
        /\ store_fault' = ~store_ok
        /\ raised' = FALSE
        /\ last_call' = "ingest"
        /\ UNCHANGED <<tables, arrived_late>>

\* os.makedirs or sqlite3.connect raises inside the try: the except branch
\* returns False, but the finally clause then tests `conn`, which was never
\* bound, and its UnboundLocalError replaces the return.
ingest_data_connect_fails ==
    /\ returned' = FALSE
    /\ raised' = TRUE
    /\ written' = 0
    /\ store_fault' = TRUE
    /\ last_call' = "ingest"
    /\ UNCHANGED <<tables, bronze_raw, arrived_late>>

-----------------------------------------------------------------------------
(* process_silver_layer                                                    *)

\* Mutant: no anti-join, every bronze row is selected.
unprocessed_all(bronze, silver) == bronze

\* Mutant: WHERE s.transaction_id IS NOT NULL, the rows already in silver.
unprocessed_inner_join(bronze, silver) ==
    { b \in bronze : \E s \in silver : s.transaction_id = b.transaction_id }

\* SELECT b.* FROM bronze_transactions b LEFT JOIN silver_transactions s
\*   ON b.transaction_id = s.transaction_id WHERE s.transaction_id IS NULL
unprocessed(bronze, silver) ==
    { b \in bronze : \A s \in silver : s.transaction_id # b.transaction_id }

\* pd.to_datetime(row['timestamp']) followed by dt.date() and dt.time():
\* both succeed exactly on a well-formed 'date time' string.  An unparseable
\* string raises in to_datetime; None gives NaT, whose time() raises.
timestamp_parses(ts) ==
    /\ Len(ts) = 2
    /\ \E i \in DOMAIN Dates : Dates[i] = ts[1]

to_datetime_error(ts) ==
    IF ts = NullTs THEN "NaTType does not support time"
    ELSE "Unknown datetime string format"

Abs(x) == IF x < 0 THEN -x ELSE x

\* str(row['customer_id']): None prints as 'None'.
str(cust) == IF cust = NullCust THEN <<"N", "o", "n", "e">> ELSE cust

\* Mutant: every customer_id passes the prefix test.
startswith_always(s, prefix) == TRUE

startswith(s, prefix) ==
    /\ Len(s) >= Len(prefix)
    /\ SubSeq(s, 1, Len(prefix)) = prefix

\* Mutant: the status compared as written, without lower().
lower_identity(s) == s

\* str.lower() on the status strings of the model.
lower(s) ==
    CASE s = "COMPLETED" -> "completed"
      [] s = "Pending" -> "pending"
      [] s = "Gold" -> "gold"
      [] OTHER -> s

valid_statuses == {"completed", "pending", "failed", "reversed"}

\* row['status'].lower() raises AttributeError when status is None: the
\* exception leaves the loop and the whole call.
row_raises(row) == row.status = NULL

\* Mutant: amount > 0 in place of amount >= 0.
refund_needs_correction_strict(row) ==
    row.transaction_type = "refund" /\ row.amount > 0

refund_needs_correction(row) ==
    row.transaction_type = "refund" /\ row.amount >= 0

RefundMessage == <<"Refund with non-negative amount">>
CustomerMessage == <<"Invalid customer ID format">>

\* validation_messages, in the order the rules append to it; a message is
\* the sequence of the fragments of its f-string.
validation_messages(row) ==
    LET m1 == IF timestamp_parses(row.timestamp) THEN <<>>
              ELSE << <<"Invalid timestamp: ", to_datetime_error(row.timestamp)>> >>
        m2 == IF refund_needs_correction(row) THEN <<RefundMessage>> ELSE <<>>
        m3 == IF startswith(str(row.customer_id), <<"C", "U", "S", "T">>) THEN <<>>
              ELSE <<CustomerMessage>>
        m4 == IF lower(row.status) \in valid_statuses THEN <<>>
              ELSE << <<"Invalid status: ", row.status>> >>
    IN  m1 \o m2 \o m3 \o m4

\* "; ".join(messages)
RECURSIVE join(_, _)
join(sep, messages) ==
    IF messages = <<>> THEN <<>>
    ELSE IF Len(messages) = 1 THEN messages[1]
    ELSE messages[1] \o <<sep>> \o join(sep, Tail(messages))

VALID == <<"VALID">>

\* Mutant: only the first message is reported.
validation_status_first_only(messages) ==
    IF messages = <<>> THEN VALID
    ELSE <<"WARNING: ">> \o messages[1]

validation_status(messages) ==
    IF messages = <<>> THEN VALID
    ELSE <<"WARNING: ">> \o join("; ", messages)

\* Mutant: abs(row['amount']), the minus sign lost.
corrected_amount_abs(row) == Abs(row.amount)

\* -abs(row['amount'])
corrected_amount(row) == -Abs(row.amount)

\* The silver row the loop body and the column drops make of one bronze row.
silver_row(row) ==
    [transaction_id |-> row.transaction_id,
     customer_id |-> row.customer_id,
     transaction_date |-> IF timestamp_parses(row.timestamp)
                          THEN row.timestamp[1] ELSE NULL,
     transaction_time |-> IF timestamp_parses(row.timestamp)
                          THEN row.timestamp[2] ELSE NULL,
     amount |-> IF refund_needs_correction(row)
                THEN corrected_amount(row) ELSE row.amount,
     transaction_type |-> row.transaction_type,
     category |-> row.category,
     status |-> IF lower(row.status) \in valid_statuses
                THEN row.status ELSE "pending",
     validation_status |-> validation_status(validation_messages(row))]

\* Mutant: each transformed row is committed on its own, so the rows that
\* did not raise stay when the run fails.
silver_outcome_partial(bronze, silver, store_ok) ==
    LET df == { b \in bronze : \A s \in silver : s.transaction_id # b.transaction_id }
        done == { silver_row(row) : row \in { r \in df : r.status # NULL } }
    IN  IF ~store_ok
        THEN [rows |-> silver, ok |-> FALSE, n |-> 0]
        ELSE [rows |-> silver \cup done, ok |-> \A r \in df : r.status # NULL,
              n |-> Cardinality(done)]

\* The outcome of one run: the rows of silver afterwards and the value
\* returned.  Any exception (a row that raises, a rejected read or write)
\* reaches the except branch, which rolls back and returns False.
silver_outcome(bronze, silver, store_ok) ==
    LET df == unprocessed(bronze, silver)
        silver_df == { silver_row(row) : row \in { r \in df : ~row_raises(r) } }
    IN  IF ~store_ok
        THEN [rows |-> silver, ok |-> FALSE, n |-> 0]
        ELSE IF df = {}
        THEN [rows |-> silver, ok |-> TRUE, n |-> 0]
        ELSE IF \E row \in df : row_raises(row)
        THEN [rows |-> silver, ok |-> FALSE, n |-> 0]
        ELSE IF PrimaryKeyViolation(silver, silver_df)
        THEN [rows |-> silver, ok |-> FALSE, n |-> 0]
        ELSE [rows |-> to_sql(silver, silver_df), ok |-> TRUE,
              n |-> Cardinality(silver_df)]

\* Mutant: a failed run deletes the bronze rows it could not process.
process_silver_layer_purging(store_ok) ==
    LET out == silver_outcome(bronze_transactions, silver_transactions, store_ok)
    IN  /\ silver_transactions' = out.rows
        /\ bronze_transactions' =
               IF out.ok THEN bronze_transactions
               ELSE { b \in bronze_transactions :
                        b.transaction_id \in Ids(silver_transactions) }
        /\ returned' = out.ok
        /\ written' = out.n
        /\ store_fault' = ~store_ok
        /\ raised' = FALSE
        /\ last_call' = "silver"
        /\ UNCHANGED <<gold_daily_summary, bronze_raw, input_df>>

process_silver_layer(store_ok) ==
    LET out == silver_outcome(bronze_transactions, silver_transactions, store_ok)
    IN  /\ silver_transactions' = out.rows
        /\ returned' = out.ok
        /\ written' = out.n
        /\ store_fault' = ~store_ok
        /\ raised' = FALSE
        /\ last_call' = "silver"
        /\ UNCHANGED <<bronze_transactions, gold_daily_summary, bronze_raw, input_df>>

\* self.connect() raises inside the try: the except branch tests `conn`,
\* a local that was never bound, and the UnboundLocalError it raises leaves
\* the method.  Nothing is returned (returned is FALSE: no True came back).
process_silver_layer_connect_fails ==
    /\ returned' = FALSE
    /\ raised' = TRUE
    /\ written' = 0
    /\ store_fault' = TRUE
    /\ last_call' = "silver"
    /\ UNCHANGED <<tables, bronze_raw, input_df, arrived_late>>

-----------------------------------------------------------------------------
(* process_gold_layer                                                      *)

DateIndex(d) == IF d = NULL THEN 0 ELSE CHOOSE i \in DOMAIN Dates : Dates[i] = d

\* Mutant: the frontier is not read, the run takes gold for empty.
last_processed_date_none(gold) == NULL

\* SELECT MAX(summary_date) FROM gold_daily_summary (NULL on an empty table)
last_processed_date(gold) ==
    LET ds == { g.summary_date : g \in gold } \ {NULL}
    IN  IF ds = {} THEN NULL
        ELSE CHOOSE d \in ds : \A e \in ds : DateIndex(e) <= DateIndex(d)

\* Mutant: the validation_status = 'VALID' condition left out.
aggregated_rows_any_status(silver, last) ==
    { s \in silver :
        \/ last = NULL
        \/ s.transaction_date # NULL /\ DateIndex(s.transaction_date) > DateIndex(last) }

\* Mutant: transaction_date >= last_processed_date.
aggregated_rows_from_frontier(silver, last) ==
    { s \in silver :
        /\ s.validation_status = VALID
        /\ \/ last = NULL
           \/ s.transaction_date # NULL /\ DateIndex(s.transaction_date) >= DateIndex(last) }

\* The WHERE clause of the aggregation query, in both of its branches.
aggregated_rows(silver, last) ==
    { s \in silver :
        /\ s.validation_status = VALID
        /\ \/ last = NULL
           \/ s.transaction_date # NULL /\ DateIndex(s.transaction_date) > DateIndex(last) }

RECURSIVE SumAmount(_)
SumAmount(rows) ==
    IF rows = {} THEN 0
    ELSE LET r == CHOOSE x \in rows : TRUE
         IN  r.amount + SumAmount(rows \ {r})

MinAmount(rows) == CHOOSE a \in { r.amount : r \in rows } : \A r \in rows : a <= r.amount
MaxAmount(rows) == CHOOSE a \in { r.amount : r \in rows } : \A r \in rows : a >= r.amount

RECURSIVE Gcd(_, _)
Gcd(a, b) == IF b = 0 THEN a ELSE Gcd(b, a % b)

\* AVG(amount): total / count, kept exact as a reduced fraction.
Avg(total, count) ==
    LET g == Gcd(Abs(total), count)
    IN  <<total \div g, count \div g>>

GroupKey(s) == <<s.transaction_date, s.transaction_type, s.category>>

\* One row of the GROUP BY result, before the category is normalised.
group_row(rows, key) ==
    LET members == { s \in rows : GroupKey(s) = key }
    IN  [summary_date |-> key[1],
         transaction_type |-> key[2],
         category |-> key[3],
         transaction_count |-> Cardinality(members),
         total_amount |-> SumAmount(members),
         avg_amount |-> Avg(SumAmount(members), Cardinality(members)),
         min_amount |-> MinAmount(members),
         max_amount |-> MaxAmount(members)]

\* Mutant: only a NULL category is renamed.
normalise_category_null_only(c) == IF c = NULL THEN "unknown" ELSE c

\* df['category'].fillna('unknown'); df.loc[df['category'] == '', ...] = 'unknown'
normalise_category(c) == IF c = NULL \/ c = "" THEN "unknown" ELSE c

normalised(g) == [g EXCEPT !.category = normalise_category(g.category)]

GoldKey(g) == <<g.summary_date, g.transaction_type, g.category>>

\* Mutant: the measures of the row are added to those of the stored row of
\* its key (ON CONFLICT DO UPDATE, a merge).
insert_or_merge(gold, row) ==
    LET old == { g \in gold : GoldKey(g) = GoldKey(row) }
    IN  IF old = {} THEN gold \cup {row}
        ELSE (gold \ old) \cup
             { [row EXCEPT !.transaction_count = @ + g.transaction_count,
                           !.total_amount = @ + g.total_amount,
                           !.avg_amount = Avg(row.total_amount + g.total_amount,
                                              row.transaction_count + g.transaction_count),
                           !.min_amount = IF g.min_amount < @ THEN g.min_amount ELSE @,
                           !.max_amount = IF g.max_amount > @ THEN g.max_amount ELSE @] :
               g \in old }

\* Mutant: a plain INSERT into a table without the primary key.
insert_keeping(gold, row) == gold \cup {row}

\* INSERT OR REPLACE INTO gold_daily_summary: the row replaces whatever row
\* holds its primary key.
insert_or_replace(gold, row) ==
    { g \in gold : GoldKey(g) # GoldKey(row) } \cup {row}

\* SQLite returns the groups sorted by the GROUP BY columns, NULL first and
\* the empty string before any other text.
CategoryRank(c) == IF c = NULL THEN 0 ELSE IF c = "" THEN 1 ELSE 2

\* for _, row in df.iterrows(): INSERT OR REPLACE ...  Groups of different
\* keys do not interact; among groups that normalise to one key the order
\* of the result decides which is written last.
RECURSIVE upsert_all(_, _)
upsert_all(gold, groups) ==
    IF groups = {} THEN gold
    ELSE LET first == CHOOSE g \in groups :
                        \A h \in groups :
                           (h.summary_date = g.summary_date
                            /\ h.transaction_type = g.transaction_type)
                           => CategoryRank(g.category) <= CategoryRank(h.category)
         IN  upsert_all(insert_or_replace(gold, normalised(first)), groups \ {first})

gold_outcome(silver, gold, store_ok) ==
    LET rows == aggregated_rows(silver, last_processed_date(gold))
        df == { group_row(rows, key) : key \in { GroupKey(s) : s \in rows } }
    IN  IF ~store_ok
        THEN [rows |-> gold, ok |-> FALSE, n |-> 0]
        ELSE IF df = {}
        THEN [rows |-> gold, ok |-> TRUE, n |-> 0]
        ELSE [rows |-> upsert_all(gold, df), ok |-> TRUE, n |-> Cardinality(df)]

process_gold_layer(store_ok) ==
    LET out == gold_outcome(silver_transactions, gold_daily_summary, store_ok)
    IN  /\ gold_daily_summary' = out.rows
        /\ returned' = out.ok
        /\ written' = out.n
        /\ store_fault' = ~store_ok
        /\ raised' = FALSE
        /\ last_call' = "gold"
        /\ UNCHANGED <<bronze_transactions, silver_transactions, bronze_raw, input_df,
                       arrived_late>>

\* The table as the open transaction sees it when the k-th INSERT OR REPLACE
\* of the loop raises: the first k - 1 groups have been written.
RECURSIVE upserts_before(_, _, _)
upserts_before(gold, groups, k) ==
    IF k <= 1 \/ groups = {} THEN gold
    ELSE LET first == CHOOSE g \in groups :
                        \A h \in groups :
                           (h.summary_date = g.summary_date
                            /\ h.transaction_type = g.transaction_type)
                           => CategoryRank(g.category) <= CategoryRank(h.category)
         IN  upserts_before(insert_or_replace(gold, normalised(first)),
                            groups \ {first}, k - 1)

\* Mutant: the except branch without conn.rollback(), the writes of the
\* open transaction stay.
rollback_missing(before, during) == during

\* conn.rollback() in the except branch: the table is what it was at BEGIN.
rollback(before, during) == before

\* A run whose k-th upsert is rejected by the store: the except branch
\* rolls the transaction back and returns False.
process_gold_layer_upsert_fault(k) ==
    LET rows == aggregated_rows(silver_transactions,
                                last_processed_date(gold_daily_summary))
        df == { group_row(rows, key) : key \in { GroupKey(s) : s \in rows } }
    IN  /\ k \in 1..Cardinality(df)
        /\ gold_daily_summary' =
              rollback(gold_daily_summary, upserts_before(gold_daily_summary, df, k))
        /\ returned' = FALSE
        /\ written' = 0
        /\ store_fault' = TRUE
        /\ raised' = FALSE
        /\ last_call' = "gold"
        /\ UNCHANGED <<bronze_transactions, silver_transactions, bronze_raw, input_df,
                       arrived_late>>

-----------------------------------------------------------------------------
(* export_data                                                             *)

Layers == {"bronze", "silver", "gold"}

\* Mutant: the export moves the rows out, emptying the table it exported.
export_data_moving(layer, store_ok) ==
    /\ returned' = (layer \in Layers /\ store_ok)
    /\ bronze_transactions' =
           IF layer = "bronze" /\ store_ok THEN {} ELSE bronze_transactions
    /\ silver_transactions' =
           IF layer = "silver" /\ store_ok THEN {} ELSE silver_transactions
    /\ gold_daily_summary' =
           IF layer = "gold" /\ store_ok THEN {} ELSE gold_daily_summary
    /\ written' = 0
    /\ store_fault' = ~store_ok
    /\ raised' = FALSE
    /\ last_call' = "export"
    /\ UNCHANGED <<bronze_raw, input_df, arrived_late>>

\* SELECT * FROM the layer's table, written to a parquet file; the store is
\* only read.  returned is TRUE when a file path is returned and FALSE when
\* None is: for a layer name that is none of the three, and when the read
\* or the file write raises.
export_data(layer, store_ok) ==
    /\ returned' = (layer \in Layers /\ store_ok)
    /\ written' = 0
    /\ store_fault' = ~store_ok
    /\ raised' = FALSE
    /\ last_call' = "export"
    /\ UNCHANGED <<tables, bronze_raw, input_df, arrived_late>>

-----------------------------------------------------------------------------
(* The package sqlite_pipeline: transform_bronze_to_silver (silver.py) and *)
(* aggregate_silver_to_gold (gold.py), each on a database of its own whose *)
(* table exists                                                            *)

\* The silver row made of one bronze row: date and time split off the
\* timestamp, validation_status set by the two rules, the later one last.
package_silver_row(row) ==
    [transaction_id |-> row.transaction_id,
     customer_id |-> row.customer_id,
     transaction_date |-> row.timestamp[1],
     transaction_time |-> row.timestamp[2],
     amount |-> row.amount,
     transaction_type |-> row.transaction_type,
     category |-> row.category,
     status |-> row.status,
     validation_status |->
         IF ~startswith(row.customer_id, <<"C", "U", "S", "T">>)
         THEN "INVALID: Invalid customer ID"
         ELSE IF row.amount < 0 THEN "INVALID: Negative amount"
         ELSE "VALID"]

\* One call of transform_bronze_to_silver: every bronze row whose id silver
\* lacks is transformed and appended.  pd.to_datetime raises on a
\* timestamp it cannot parse, and then nothing is written; every exception
\* is answered with False.
transform_outcome(bronze, silver, store_ok) ==
    LET new_bronze_df == { b \in bronze : b.transaction_id \notin Ids(silver) }
    IN  IF ~store_ok
        THEN [rows |-> silver, ok |-> FALSE, n |-> 0]
        ELSE IF bronze = {} \/ new_bronze_df = {}
        THEN [rows |-> silver, ok |-> TRUE, n |-> 0]
        ELSE IF \E b \in new_bronze_df : ~timestamp_parses(b.timestamp)
        THEN [rows |-> silver, ok |-> FALSE, n |-> 0]
        ELSE [rows |-> to_sql(silver, { package_silver_row(b) : b \in new_bronze_df }),
              ok |-> TRUE, n |-> Cardinality(new_bronze_df)]

transform_bronze_to_silver(store_ok) ==
    LET out == transform_outcome(bronze_raw, silver_raw, store_ok)
    IN  /\ silver_raw' = out.rows
        /\ returned' = out.ok
        /\ written' = out.n
        /\ store_fault' = ~store_ok
        /\ raised' = FALSE
        /\ last_call' = "transform"
        /\ UNCHANGED <<tables, bronze_raw, arrived_late, run, gold_raw, upload, workers>>

\* One row of the package's GROUP BY result.
package_group_row(rows, key) ==
    LET members == { s \in rows : GroupKey(s) = key }
    IN  [summary_date |-> key[1],
         transaction_type |-> key[2],
         category |-> key[3],
         transaction_count |-> Cardinality(members),
         total_amount |-> SumAmount(members),
         avg_amount |-> Avg(SumAmount(members), Cardinality(members))]

\* PRIMARY KEY (summary_date, transaction_type, category) of the package's
\* gold table: a row is rejected when a stored row has its key, unless the
\* key holds a NULL, which SQLite keeps apart from every other NULL.
gold_key_conflict(gold, row) ==
    /\ NULL \notin { row.summary_date, row.transaction_type, row.category }
    /\ \E g \in BagToSet(gold) : GoldKey(g) = GoldKey(row)

\* One call of aggregate_silver_to_gold: every VALID silver row is grouped,
\* whatever gold holds, and the groups are appended with
\* to_sql(if_exists='append'); a key conflict raises, nothing is committed
\* and False is returned.
aggregate_outcome(silver, gold, store_ok) ==
    LET valid == { s \in silver : s.validation_status = "VALID" }
        df == { package_group_row(valid, key) : key \in { GroupKey(s) : s \in valid } }
    IN  IF ~store_ok
        THEN [rows |-> gold, ok |-> FALSE, n |-> 0]
        ELSE IF df = {}
        THEN [rows |-> gold, ok |-> TRUE, n |-> 0]
        ELSE IF \E row \in df : gold_key_conflict(gold, row)
        THEN [rows |-> gold, ok |-> FALSE, n |-> 0]
        ELSE [rows |-> gold (+) SetToBag(df), ok |-> TRUE, n |-> Cardinality(df)]

aggregate_silver_to_gold(store_ok) ==
    LET out == aggregate_outcome(silver_raw, gold_raw, store_ok)
    IN  /\ gold_raw' = out.rows
        /\ returned' = out.ok
        /\ written' = out.n
        /\ store_fault' = ~store_ok
        /\ raised' = FALSE
        /\ last_call' = "aggregate"
        /\ UNCHANGED <<tables, bronze_raw, arrived_late, run, silver_raw, upload, workers>>

\* The three export_table_to_parquet calls of the script: the tables are
\* read and written to files.
export_table_to_parquet ==
    /\ returned' = TRUE
    /\ written' = 0
    /\ store_fault' = FALSE
    /\ raised' = FALSE
    /\ last_call' = "export_table"
    /\ UNCHANGED <<tables, bronze_raw, arrived_late, run, silver_raw, gold_raw,
                   upload, workers>>

-----------------------------------------------------------------------------
(* run_pipeline and main: the record of a run                              *)

\* The dictionary run_pipeline returns: per layer, whether the entry is a
\* file path (TRUE) or None (FALSE).
NoFiles == [bronze |-> FALSE, silver |-> FALSE, gold |-> FALSE]

\* pc is the stage the run is about to call ("idle" before the first run,
\* "done" once main has returned); started lists the stages called;
\* failed names the stage whose failure ended the run; exit_code is the
\* exit code of the command, -1 while it has not exited.  History, kept
\* for the properties: rerun marks a run started on the input of the run
\* before it, snapshot is the tables at its start, env_fault tells
\* whether a step of the run met a store fault or an unreadable file.
NoRun ==
    [pc |-> "idle", has_input |-> FALSE, started |-> <<>>, failed |-> "none",
     files |-> NoFiles, exit_code |-> -1,
     rerun |-> FALSE, snapshot |-> <<{}, {}, {}>>, env_fault |-> FALSE]

-----------------------------------------------------------------------------
(* The programs beside MedallionPipeline: initial values                   *)

\* The script before it starts: pc is the step it is about to take,
\* called lists the stage functions it has called, and result holds what
\* each returned ("none" while it has not been called).
NoScript ==
    [pc |-> "idle", called |-> <<>>,
     result |-> [bronze |-> "none", silver |-> "none", gold |-> "none"]]

\* No upload_layer_data call yet.  pc is "loop" while _upload_with_retry
\* runs and "returned" once upload_layer_data has returned; attempt is the
\* local of that name; result is what _upload_with_retry returned and uri
\* tells whether upload_layer_data returned an S3 URI (FALSE: None).
\* History: tries lists, per pass of the loop, what upload_file did, what
\* _verify_upload returned and the back-off the pass slept.
NoUpload ==
    [pc |-> "idle", retry_attempts |-> 0, layer |-> "none", file_exists |-> FALSE,
     attempt |-> 0, tries |-> <<>>, result |-> FALSE, uri |-> FALSE]

\* The processes that run the pipeline on one store at the same time.
Procs == {"run1", "run2"}

\* A process outside the pipeline.  pc is the step the process is at; rows
\* is the frame it selected and is about to append; ok is what each stage
\* returned in this run.
\* History: rejected is the set of stages in which an append of the process
\* was ever refused by the key.
NoWorker ==
    [pc |-> "idle", rows |-> {},
     ok |-> [bronze |-> "none", silver |-> "none"], rejected |-> {}]

\* No process is inside a stage.
NoWorkers == [p \in Procs |-> NoWorker]

-----------------------------------------------------------------------------
(* Specifications                                                          *)

Init ==
    /\ bronze_transactions = {}
    /\ silver_transactions = {}
    /\ gold_daily_summary = {}
    /\ bronze_raw = {}
    /\ last_call = "none"
    /\ returned = TRUE
    /\ store_fault = FALSE
    /\ written = 0
    /\ input_df = <<>>
    /\ arrived_late = {}
    /\ raised = FALSE
    /\ run = NoRun
    /\ silver_raw = {}
    /\ gold_raw = EmptyBag
    /\ script = NoScript
    /\ upload = NoUpload
    /\ workers = NoWorkers

\* The stage methods called in any order, any number of times, on one store;
\* each bronze load reads a batch of at most MaxBatch rows.
LoadBatch ==
    \E df \in Batches : process_bronze_layer(df, TRUE) /\ UNCHANGED <<input_df, run, beside>>

LoadBatchStoreFault ==
    \E df \in { b \in Batches : Len(b) <= 1 } :
        process_bronze_layer(df, FALSE) /\ UNCHANGED <<input_df, run, beside>>

\* The ids of the rows a silver run appended whose transaction_date is at
\* or before a summary_date of gold: history, kept for the properties.
LateArrivals(before, after, gold) ==
    { s.transaction_id : s \in
        { t \in after \ before :
            \E g \in gold :
                DateIndex(t.transaction_date) <= DateIndex(g.summary_date) } }

\* One call of process_silver_layer with the history of late arrivals kept.
silver_stage(store_ok) ==
    /\ process_silver_layer(store_ok)
    /\ arrived_late' = arrived_late \cup
          LateArrivals(silver_transactions, silver_transactions', gold_daily_summary)

LoadUnreadable == process_bronze_layer_unreadable /\ UNCHANGED <<run, beside>>
RunSilver == silver_stage(TRUE) /\ UNCHANGED <<run, beside>>
RunSilverStoreFault == silver_stage(FALSE) /\ UNCHANGED <<run, beside>>
RunGold == process_gold_layer(TRUE) /\ UNCHANGED <<run, beside>>
RunGoldStoreFault == process_gold_layer(FALSE) /\ UNCHANGED <<run, beside>>
RunGoldUpsertFault ==
    \E k \in 1..Cardinality(Pool) : process_gold_layer_upsert_fault(k) /\ UNCHANGED <<run, beside>>
Export ==
    \E layer \in Layers \cup {"platinum"} : export_data(layer, TRUE) /\ UNCHANGED <<run, beside>>
ExportFault == \E layer \in Layers : export_data(layer, FALSE) /\ UNCHANGED <<run, beside>>

Next ==
    \/ LoadBatch
    \/ LoadBatchStoreFault
    \/ LoadUnreadable
    \/ RunSilver
    \/ RunSilverStoreFault
    \/ RunGold
    \/ RunGoldStoreFault
    \/ RunGoldUpsertFault
    \/ Export
    \/ ExportFault

Spec == Init /\ [][Next]_vars

\* The two bronze loaders alone, each on its own database, the batch of
\* each load kept in input_df.
LoadRecorded ==
    \E df \in BronzeBatches : process_bronze_layer(df, TRUE) /\ input_df' = df /\ UNCHANGED <<run, beside>>

LoadRecordedStoreFault ==
    \E df \in { b \in BronzeBatches : Len(b) <= 1 } :
        process_bronze_layer(df, FALSE) /\ input_df' = df /\ UNCHANGED <<run, beside>>

IngestRecorded ==
    \E csv \in BronzeBatches : ingest_data(csv, TRUE) /\ input_df' = csv /\ UNCHANGED <<run, beside>>

IngestRecordedStoreFault ==
    \E csv \in { b \in BronzeBatches : Len(b) <= 1 } :
        ingest_data(csv, FALSE) /\ input_df' = csv /\ UNCHANGED <<run, beside>>

IngestConnectFails == ingest_data_connect_fails /\ UNCHANGED <<input_df, run, beside>>

NextBronze ==
    \/ LoadRecorded
    \/ LoadRecordedStoreFault
    \/ LoadUnreadable
    \/ IngestRecorded
    \/ IngestRecordedStoreFault
    \/ IngestConnectFails

SpecBronze == Init /\ [][NextBronze]_vars

\* The bronze loader on files of one row, with and without their columns.
\* Frames without the amount or the merchant column are not drawn: the
\* amounts of the model are integers, which no table can mix with NULL, and
\* merchant is not among the fields of the model's rows.
ColumnsDrawn == RequiredColumns \ {"amount", "merchant"}

OneRowBatches == { b \in BronzeBatches : Len(b) = 1 }

LoadFull ==
    \E df \in OneRowBatches : process_bronze_layer(df, TRUE) /\ input_df' = df /\ UNCHANGED <<run, beside>>

LoadMissingColumn ==
    \E df \in OneRowBatches, column \in ColumnsDrawn :
        process_bronze_layer_missing_column(df, column) /\ input_df' = df /\ UNCHANGED <<run, beside>>

NextColumns ==
    \/ LoadFull
    \/ LoadMissingColumn

SpecColumns == Init /\ [][NextColumns]_vars

\* The silver and gold stages on a bronze table of one row, the row drawn
\* from every combination of field values.
InitValidate ==
    /\ bronze_transactions \in { {row} : row \in AllRows }
    /\ silver_transactions = {}
    /\ gold_daily_summary = {}
    /\ bronze_raw = {}
    /\ last_call = "none"
    /\ returned = TRUE
    /\ store_fault = FALSE
    /\ written = 0
    /\ input_df = <<>>
    /\ arrived_late = {}
    /\ raised = FALSE
    /\ run = NoRun
    /\ silver_raw = {}
    /\ gold_raw = EmptyBag
    /\ script = NoScript
    /\ upload = NoUpload
    /\ workers = NoWorkers

NextValidate ==
    \/ RunSilver
    \/ RunSilverStoreFault
    \/ RunGold
    \/ RunGoldStoreFault

SpecValidate == InitValidate /\ [][NextValidate]_vars

-----------------------------------------------------------------------------
(* run_pipeline and main, one step per stage call                          *)

\* Mutant: the value a stage returns is not tested.
after_stage_ungated(stage, success) ==
    CASE stage = "bronze" -> "silver"
      [] stage = "silver" -> "gold"
      [] stage = "gold" -> "export_bronze"

\* The step that follows a stage, given the value the stage returned: a
\* False raises, and the except branch returns without calling anything.
after_stage(stage, success) ==
    IF ~success THEN "done"
    ELSE CASE stage = "bronze" -> "silver"
           [] stage = "silver" -> "gold"
           [] stage = "gold" -> "export_bronze"

\* The record of the run once `stage` has been called and has returned
\* `success`; main returns when the run does, and the command exits with
\* code 0: main never calls sys.exit and run_pipeline raises nothing.
staged(r, stage, success, fault) ==
    [r EXCEPT !.pc = after_stage(stage, success),
              !.started = Append(@, stage),
              !.failed = IF success THEN @ ELSE stage,
              !.exit_code = IF after_stage(stage, success) = "done" THEN 0 ELSE @,
              !.env_fault = @ \/ fault]

\* The step of the run that calls export_data(layer).
export_step(layer) ==
    CASE layer = "bronze" -> "export_bronze"
      [] layer = "silver" -> "export_silver"
      [] layer = "gold" -> "export_gold"

\* The export step that follows the export of `layer`.
after_export(layer) ==
    CASE layer = "bronze" -> "export_silver"
      [] layer = "silver" -> "export_gold"
      [] layer = "gold" -> "done"

\* The record of the run once export_data(layer) has returned: the entry
\* of the layer is the path or None, and the run goes on either way.
exported(r, layer, file, fault) ==
    [r EXCEPT !.pc = after_export(layer),
              !.started = IF layer = "bronze" THEN Append(@, "export") ELSE @,
              !.files = [@ EXCEPT ![layer] = file],
              !.exit_code = IF after_export(layer) = "done" THEN 0 ELSE @,
              !.env_fault = @ \/ fault]

\* main calls run_pipeline: create_tables (CREATE TABLE IF NOT EXISTS, the
\* tables keep their rows), then bronze when an input file is named.
run_pipeline_start(df, has_input) ==
    /\ run.pc \in {"idle", "done"}
    /\ run' = [NoRun EXCEPT !.pc = IF has_input THEN "bronze" ELSE "silver",
                            !.has_input = has_input]
    /\ input_df' = df
    /\ UNCHANGED <<tables, bronze_raw, last_call, returned, store_fault, written,
                   arrived_late, raised>>
    /\ UNCHANGED beside

StartRun == \E df \in PipelineBatches : run_pipeline_start(df, TRUE)

StartRunNoInput == run_pipeline_start(<<>>, FALSE)

\* The command run again on the input file of a run that succeeded.
StartRerun ==
    /\ run.pc = "done"
    /\ run.failed = "none"
    /\ run.has_input
    /\ run' = [NoRun EXCEPT !.pc = "bronze", !.has_input = TRUE,
                            !.rerun = TRUE, !.snapshot = tables]
    /\ UNCHANGED <<tables, bronze_raw, last_call, returned, store_fault, written,
                   arrived_late, raised, input_df>>
    /\ UNCHANGED beside

StepBronze ==
    /\ run.pc = "bronze"
    /\ \E store_ok \in BOOLEAN :
          /\ process_bronze_layer(input_df, store_ok)
          /\ run' = staged(run, "bronze", returned', ~store_ok)
    /\ UNCHANGED input_df
    /\ UNCHANGED beside

StepBronzeUnreadable ==
    /\ run.pc = "bronze"
    /\ process_bronze_layer_unreadable
    /\ run' = staged(run, "bronze", FALSE, TRUE)
    /\ UNCHANGED beside

StepSilver ==
    /\ run.pc = "silver"
    /\ \E store_ok \in BOOLEAN :
          /\ silver_stage(store_ok)
          /\ run' = staged(run, "silver", returned', ~store_ok)
    /\ UNCHANGED beside

\* The UnboundLocalError of process_silver_layer is caught by the except
\* branch of run_pipeline, like the exception a False raises.
StepSilverConnectFails ==
    /\ run.pc = "silver"
    /\ process_silver_layer_connect_fails
    /\ run' = staged(run, "silver", FALSE, TRUE)
    /\ UNCHANGED beside

StepGold ==
    /\ run.pc = "gold"
    /\ \E store_ok \in BOOLEAN :
          /\ process_gold_layer(store_ok)
          /\ run' = staged(run, "gold", returned', ~store_ok)
    /\ UNCHANGED beside

StepGoldUpsertFault ==
    /\ run.pc = "gold"
    /\ \E k \in 1..Cardinality(PipelinePool) :
          /\ process_gold_layer_upsert_fault(k)
          /\ run' = staged(run, "gold", FALSE, TRUE)
    /\ UNCHANGED beside

StepExport ==
    /\ UNCHANGED beside
    /\ \E layer \in Layers, store_ok \in BOOLEAN :
          /\ run.pc = export_step(layer)
          /\ export_data(layer, store_ok)
          /\ run' = exported(run, layer, returned', ~store_ok)

\* export_data called outside a run, as main does with --export-only, with
\* any layer name.
ExportCall ==
    /\ run.pc \in {"idle", "done"}
    /\ \E layer \in Layers \cup {"platinum"}, store_ok \in BOOLEAN :
          export_data(layer, store_ok)
    /\ UNCHANGED <<run, beside>>

NextPipeline ==
    \/ StartRun
    \/ StartRunNoInput
    \/ StartRerun
    \/ StepBronze
    \/ StepBronzeUnreadable
    \/ StepSilver
    \/ StepSilverConnectFails
    \/ StepGold
    \/ StepGoldUpsertFault
    \/ StepExport
    \/ ExportCall

SpecPipeline == Init /\ [][NextPipeline]_vars

-----------------------------------------------------------------------------
(* The script sqlite_pipeline/run_pipeline.py, one step per call           *)

\* The script goes on to the next stage whatever the stage returned: the
\* value is only tested to log a message.
script_after(stage, result) ==
    CASE stage = "bronze" -> "silver"
      [] stage = "silver" -> "gold"
      [] stage = "gold" -> "export"
      [] stage = "export" -> "done"

\* The record of the script once `stage` has been called and returned
\* `result`.
script_called(sc, stage, result) ==
    [sc EXCEPT !.pc = script_after(stage, result),
               !.called = Append(@, stage),
               !.result = IF stage \in DOMAIN @
                          THEN [@ EXCEPT ![stage] = IF result THEN "True" ELSE "False"]
                          ELSE @]

\* The script starts; csv is the content of the CSV file, which the script
\* finds (csv_exists) or not.  Without the file the bronze stage is not
\* called and the script goes on with the silver stage.
script_start(csv, csv_exists) ==
    /\ script.pc \in {"idle", "done"}
    /\ script' = [NoScript EXCEPT !.pc = IF csv_exists THEN "bronze" ELSE "silver"]
    /\ input_df' = csv
    /\ UNCHANGED <<tables, bronze_raw, last_call, returned, store_fault, written,
                   arrived_late, raised, run, silver_raw, gold_raw, upload, workers>>

ScriptStart == \E csv \in PackageBatches : script_start(csv, TRUE)

ScriptStartNoCsv == script_start(<<>>, FALSE)

ScriptBronze ==
    /\ script.pc = "bronze"
    /\ \E store_ok \in BOOLEAN : ingest_data(input_df, store_ok)
    /\ script' = script_called(script, "bronze", returned')
    /\ UNCHANGED <<input_df, run, silver_raw, gold_raw, upload, workers>>

ScriptSilver ==
    /\ script.pc = "silver"
    /\ \E store_ok \in BOOLEAN : transform_bronze_to_silver(store_ok)
    /\ script' = script_called(script, "silver", returned')
    /\ UNCHANGED input_df

\* The gold table is let grow to MaxCopies copies of a row, no further.
ScriptGold ==
    /\ script.pc = "gold"
    /\ \A g \in BagToSet(gold_raw) : CopiesIn(g, gold_raw) < MaxCopies
    /\ \E store_ok \in BOOLEAN : aggregate_silver_to_gold(store_ok)
    /\ script' = script_called(script, "gold", returned')
    /\ UNCHANGED input_df

ScriptExport ==
    /\ script.pc = "export"
    /\ export_table_to_parquet
    /\ script' = script_called(script, "export", TRUE)
    /\ UNCHANGED input_df

\* gold.py run as a program of its own, while the script is not running:
\* one call of aggregate_silver_to_gold.
GoldMain ==
    /\ script.pc \in {"idle", "done"}
    /\ \A g \in BagToSet(gold_raw) : CopiesIn(g, gold_raw) < MaxCopies
    /\ \E store_ok \in BOOLEAN : aggregate_silver_to_gold(store_ok)
    /\ UNCHANGED <<script, input_df>>

NextScript ==
    \/ ScriptStart
    \/ ScriptStartNoCsv
    \/ ScriptBronze
    \/ ScriptSilver
    \/ ScriptGold
    \/ ScriptExport
    \/ GoldMain

SpecScript == Init /\ [][NextScript]_vars

-----------------------------------------------------------------------------
(* Two runs of MedallionPipeline on one store, interleaved: in each stage  *)
(* the SELECT of what is stored and the later to_sql append are two steps  *)

\* What a step of process p leaves alone.
worker_frame ==
    /\ store_fault' = FALSE
    /\ raised' = FALSE
    /\ UNCHANGED <<gold_daily_summary, bronze_raw, input_df, arrived_late, run,
                   silver_raw, gold_raw, script, upload>>

\* process_bronze_layer up to the filter: the batch is read, deduplicated
\* and reduced to the ids bronze does not hold at this moment.  With no new
\* record the stage returns True at once.
bronze_read(p, df) ==
    LET new == new_records(bronze_transactions, df)
        w == [workers[p] EXCEPT !.rows = new,
                                !.ok = [bronze |-> "none", silver |-> "none"]]
    IN  /\ workers[p].pc \in {"idle", "done"}
        /\ workers' = [workers EXCEPT ![p] =
               IF new = {}
               THEN [w EXCEPT !.pc = "silver_read", !.ok.bronze = "True"]
               ELSE [w EXCEPT !.pc = "bronze_append"]]
        /\ last_call' = "bronze"
        /\ returned' = (new = {})
        /\ written' = 0
        /\ UNCHANGED tables
        /\ worker_frame

\* process_bronze_layer from to_sql on: the selected records are appended
\* to bronze as it is now.  A rejected append raises, nothing of it is
\* stored, the stage returns False and run_pipeline ends the run.
bronze_append(p) ==
    LET rows == workers[p].rows
        refused == PrimaryKeyViolation(bronze_transactions, rows)
    IN  /\ workers[p].pc = "bronze_append"
        /\ bronze_transactions' =
               IF refused THEN bronze_transactions ELSE to_sql(bronze_transactions, rows)
        /\ workers' = [workers EXCEPT ![p] =
               IF refused
               THEN [@ EXCEPT !.pc = "done", !.ok.bronze = "False",
                              !.rejected = @ \cup {"bronze"}]
               ELSE [@ EXCEPT !.pc = "silver_read", !.ok.bronze = "True"]]
        /\ last_call' = "bronze"
        /\ returned' = ~refused
        /\ written' = IF refused THEN 0 ELSE Cardinality(rows)
        /\ UNCHANGED silver_transactions
        /\ worker_frame

\* process_silver_layer up to the frame to insert: the anti-join is read and
\* every selected row transformed.  No row selected: True; a row that
\* raises: rollback and False.
silver_read(p) ==
    LET df == unprocessed(bronze_transactions, silver_transactions)
        raises == \E row \in df : row_raises(row)
        silver_df == { silver_row(row) : row \in { r \in df : ~row_raises(r) } }
    IN  /\ workers[p].pc = "silver_read"
        /\ workers' = [workers EXCEPT ![p] =
               IF df = {} THEN [@ EXCEPT !.pc = "done", !.rows = {}, !.ok.silver = "True"]
               ELSE IF raises
               THEN [@ EXCEPT !.pc = "done", !.rows = {}, !.ok.silver = "False"]
               ELSE [@ EXCEPT !.pc = "silver_append", !.rows = silver_df]]
        /\ last_call' = "silver"
        /\ returned' = (df = {})
        /\ written' = 0
        /\ UNCHANGED tables
        /\ worker_frame

\* process_silver_layer from BEGIN TRANSACTION on: the transformed rows are
\* appended to silver as it is now.  A rejected append raises, the except
\* branch rolls back and returns False.
silver_append(p) ==
    LET rows == workers[p].rows
        refused == PrimaryKeyViolation(silver_transactions, rows)
    IN  /\ workers[p].pc = "silver_append"
        /\ silver_transactions' =
               IF refused THEN silver_transactions ELSE to_sql(silver_transactions, rows)
        /\ workers' = [workers EXCEPT ![p] =
               IF refused
               THEN [@ EXCEPT !.pc = "done", !.ok.silver = "False",
                              !.rejected = @ \cup {"silver"}]
               ELSE [@ EXCEPT !.pc = "done", !.ok.silver = "True"]]
        /\ last_call' = "silver"
        /\ returned' = ~refused
        /\ written' = IF refused THEN 0 ELSE Cardinality(rows)
        /\ UNCHANGED bronze_transactions
        /\ worker_frame

BronzeRead == \E p \in Procs, df \in PipelineBatches : bronze_read(p, df)

BronzeAppend == \E p \in Procs : bronze_append(p)

SilverRead == \E p \in Procs : silver_read(p)

SilverAppend == \E p \in Procs : silver_append(p)

NextWorkers ==
    \/ BronzeRead
    \/ BronzeAppend
    \/ SilverRead
    \/ SilverAppend

SpecWorkers == Init /\ [][NextWorkers]_vars

-----------------------------------------------------------------------------
(* S3Integration (src/src/s3-integration.py): upload_layer_data            *)

\* What head_object can answer after an upload: a ClientError, metadata
\* whose md5_hash is the file's, metadata with another md5_hash, metadata
\* without that key.
HeadAnswers == {"client_error", "md5_match", "md5_mismatch", "no_md5"}

\* _verify_upload: False on ClientError and on an md5_hash that differs,
\* True otherwise (also when the metadata holds no md5_hash).
verify_upload(head) == head \notin {"client_error", "md5_mismatch"}

\* Mutant: attempt <= self.retry_attempts.
loop_continues_once_more(attempt, retry_attempts) == attempt <= retry_attempts

\* while attempt < self.retry_attempts
loop_continues(attempt, retry_attempts) == attempt < retry_attempts

\* Mutant: the pass returns True as soon as upload_file has returned.
pass_succeeds_unverified(uploaded, verified) == uploaded

\* A pass of the loop reaches `return True` when upload_file raised nothing
\* and _verify_upload returned True.
pass_succeeds(uploaded, verified) == uploaded /\ verified

\* sleep_time = self.retry_delay * (2 ** attempt), in units of retry_delay.
backoff(attempt) == 2 ^ attempt

\* upload_layer_data up to the call of _upload_with_retry: None for a file
\* that does not exist and for a layer that is none of the three (compared
\* in lower case); otherwise the loop is entered with attempt = 0.
upload_layer_data(file_exists, layer, retry_attempts) ==
    /\ upload.pc \in {"idle", "returned"}
    /\ upload' =
          [NoUpload EXCEPT !.pc = IF file_exists /\ lower(layer) \in Layers
                                  THEN "loop" ELSE "returned",
                           !.retry_attempts = retry_attempts,
                           !.layer = layer,
                           !.file_exists = file_exists]
    /\ UNCHANGED <<medallion, silver_raw, gold_raw, script, workers>>

\* One pass of the loop of _upload_with_retry.  upload_file either returns
\* or raises ClientError / EndpointConnectionError; after it returned,
\* _verify_upload decides between `return True` and another pass; after it
\* raised, the pass sleeps when attempts remain.
upload_pass(uploaded, head) ==
    LET verified == uploaded /\ verify_upload(head)
        attempt == upload.attempt + 1
        sleeps == ~uploaded /\ attempt < upload.retry_attempts
        this == [uploaded |-> uploaded,
                 verified |-> verified,
                 slept |-> IF sleeps THEN backoff(attempt) ELSE 0]
    IN  /\ upload.pc = "loop"
        /\ loop_continues(upload.attempt, upload.retry_attempts)
        /\ upload' =
              IF pass_succeeds(uploaded, verified)
              THEN [upload EXCEPT !.pc = "returned", !.result = TRUE, !.uri = TRUE,
                                  !.tries = Append(@, this)]
              ELSE [upload EXCEPT !.attempt = attempt, !.tries = Append(@, this)]
        /\ UNCHANGED <<medallion, silver_raw, gold_raw, script, workers>>

\* The loop ends without a return: _upload_with_retry returns False and
\* upload_layer_data None.
upload_gives_up ==
    /\ upload.pc = "loop"
    /\ ~loop_continues(upload.attempt, upload.retry_attempts)
    /\ upload' = [upload EXCEPT !.pc = "returned", !.result = FALSE, !.uri = FALSE]
    /\ UNCHANGED <<medallion, silver_raw, gold_raw, script, workers>>

UploadLayerData ==
    \E file_exists \in BOOLEAN, layer \in Layers \cup {"Gold", "platinum"},
       retry_attempts \in -1..MaxRetryAttempts :
        upload_layer_data(file_exists, layer, retry_attempts)

UploadPass ==
    \/ upload_pass(FALSE, "client_error")
    \/ \E head \in HeadAnswers : upload_pass(TRUE, head)

NextUpload ==
    \/ UploadLayerData
    \/ UploadPass
    \/ upload_gives_up

SpecUpload == Init /\ [][NextUpload]_vars

\* The uploader keeps running: a pass of the loop, or the return after it,
\* is taken when it can be.
SpecUploadFair == SpecUpload /\ WF_vars(UploadPass) /\ WF_vars(upload_gives_up)

-----------------------------------------------------------------------------
(* Claims                                                                  *)

HasFragment(status, fragment) == \E i \in DOMAIN status : status[i] = fragment

T1 == BronzeRow("T1", CUST1, GoodTs("2024-01-01"), 20, "purchase", "food", "completed")
T2 == BronzeRow("T2", CUST2, GoodTs("2024-01-01"), 15, "refund", "food", "completed")

\* Bronze holds exactly T1 and T2, silver has transformed both, and the
\* call that ran last is a gold run that returned True.
C1_Scenario ==
    /\ bronze_transactions = {T1, T2}
    /\ Ids(silver_transactions) = {"T1", "T2"}
    /\ last_call = "gold"
    /\ returned = TRUE

C1_PurchaseRow ==
    [summary_date |-> "2024-01-01", transaction_type |-> "purchase",
     category |-> "food", transaction_count |-> 1, total_amount |-> 20,
     avg_amount |-> <<20, 1>>, min_amount |-> 20, max_amount |-> 20]

\* C1 as stated: after bronze rows T1 (purchase 20.0) and T2 (refund 15.0)
\* went through silver and gold, gold holds the purchase row
\* (2024-01-01, purchase, food, 1, 20.0, 20.0, 20.0, 20.0) and a refund row
\* (2024-01-01, refund, food, count 1, total -15.0).
C1_EndToEndWithRefundRow ==
    C1_Scenario =>
        /\ C1_PurchaseRow \in gold_daily_summary
        /\ \E g \in gold_daily_summary :
              /\ g.summary_date = "2024-01-01"
              /\ g.transaction_type = "refund"
              /\ g.category = "food"
              /\ g.transaction_count = 1
              /\ g.total_amount = -15

\* C1 amended: after the same scenario gold holds the purchase row and
\* nothing else; the refund sits in silver with amount -15.0 and a WARNING
\* verdict, and is therefore not aggregated.
C1_EndToEnd ==
    C1_Scenario =>
        /\ gold_daily_summary = {C1_PurchaseRow}
        /\ \E s \in silver_transactions :
              /\ s.transaction_id = "T2"
              /\ s.amount = -15
              /\ s.validation_status # VALID
              /\ HasFragment(s.validation_status, "Refund with non-negative amount")

C1_Witness == C1_Scenario /\ C1_PurchaseRow \in gold_daily_summary

\* The VALID silver rows a gold row may have been computed from: those of
\* its date and type whose category, empty or NULL read as "unknown", is
\* the row's category.
C2_ValidRowsOf(g) ==
    { s \in silver_transactions :
        /\ s.validation_status = VALID
        /\ s.transaction_date = g.summary_date
        /\ s.transaction_type = g.transaction_type
        /\ (IF s.category \in {NULL, ""} THEN "unknown" ELSE s.category) = g.category }

\* C2: in every reachable state every gold row is the count and the sum of
\* a non-empty set of silver rows whose validation_status is exactly VALID;
\* no row with a WARNING verdict is counted or summed.
C2_GoldOnlyFromValid ==
    \A g \in gold_daily_summary :
        \E members \in SUBSET C2_ValidRowsOf(g) :
            /\ members # {}
            /\ g.transaction_count = Cardinality(members)
            /\ g.total_amount = SumAmount(members)

\* A gold run has aggregated a silver table that holds a WARNING row, and
\* gold has rows, none of them for the WARNING row's key.
C2_Witness ==
    /\ last_call = "gold"
    /\ returned = TRUE
    /\ written > 0
    /\ \E s \in silver_transactions :
          /\ s.validation_status # VALID
          /\ \A g \in gold_daily_summary :
                <<g.summary_date, g.transaction_type>> # <<s.transaction_date, s.transaction_type>>

\* C3: when the call before was a successful load of batch input_df, a
\* second load by the same loader that reads the same batch leaves its
\* bronze table as it is, inserts no row and returns True; this for
\* process_bronze_layer and for ingest_data.
C3_BronzeIdempotent ==
    [][ /\ ( /\ last_call = "bronze" /\ returned = TRUE /\ store_fault = FALSE
             /\ process_bronze_layer(input_df, TRUE)
             /\ input_df' = input_df )
           => ( /\ bronze_transactions' = bronze_transactions
                /\ written' = 0
                /\ returned' = TRUE )
        /\ ( /\ last_call = "ingest" /\ returned = TRUE /\ store_fault = FALSE
             /\ ingest_data(input_df, TRUE)
             /\ input_df' = input_df )
           => ( /\ bronze_raw' = bronze_raw
                /\ written' = 0
                /\ returned' = TRUE ) ]_vars

\* The batch read last is non-empty, is wholly stored, and the load of it
\* inserted nothing and returned True.
C3_Witness ==
    /\ last_call = "bronze"
    /\ returned = TRUE
    /\ written = 0
    /\ Len(input_df) = MaxBatch
    /\ \A i \in 1..Len(input_df) : input_df[i] \in bronze_transactions

\* The rows of batch df that C4 says are added: the first row of each
\* transaction_id that bronze does not hold.
C4_Added(bronze, df) ==
    { df[i] : i \in { k \in 1..Len(df) :
        /\ \A b \in bronze : b.transaction_id # df[k].transaction_id
        /\ \A j \in 1..(k - 1) : df[j].transaction_id # df[k].transaction_id } }

\* C4: after a successful load, bronze is the rows it held before plus, for
\* each transaction_id of the batch that it did not hold, the first row of
\* the batch with that id.
C4_BronzeLoadResult ==
    [][ (last_call' = "bronze" /\ returned' = TRUE)
        => bronze_transactions' =
              bronze_transactions \cup C4_Added(bronze_transactions, input_df') ]_vars

\* A load stored the first of two different rows of one id and dropped the
\* second.
C4_Witness ==
    /\ last_call = "bronze"
    /\ returned = TRUE
    /\ written = 1
    /\ Len(input_df) = 2
    /\ input_df[1] # input_df[2]
    /\ input_df[1].transaction_id = input_df[2].transaction_id
    /\ input_df[1] \in bronze_transactions
    /\ input_df[2] \notin bronze_transactions

\* C5: after any sequence of stage runs, successful or failed, no two rows
\* of bronze share a transaction_id and no two rows of silver do.
C5_UniqueTransactionIds ==
    /\ \A r, q \in bronze_transactions :
          r.transaction_id = q.transaction_id => r = q
    /\ \A r, q \in silver_transactions :
          r.transaction_id = q.transaction_id => r = q

\* Both tables hold a row for every id, after a run that failed.
C5_Witness ==
    /\ Ids(bronze_transactions) = TransactionIds
    /\ Ids(silver_transactions) = TransactionIds
    /\ returned = FALSE

\* C6: every transaction_id in silver is in bronze.
C6_SilverKeysInBronze ==
    \A s \in silver_transactions :
        \E b \in bronze_transactions : b.transaction_id = s.transaction_id

\* Silver holds rows and bronze holds a row silver has not yet taken.
C6_Witness ==
    /\ silver_transactions # {}
    /\ \E b \in bronze_transactions :
          \A s \in silver_transactions : s.transaction_id # b.transaction_id

\* C7: a silver run that starts with every bronze transaction_id already in
\* silver (and meets no store fault) appends nothing, leaves the three
\* tables as they are and returns True.
C7_SilverNoOp ==
    [][ ( /\ \A b \in bronze_transactions :
                \E s \in silver_transactions : s.transaction_id = b.transaction_id
          /\ last_call' = "silver"
          /\ store_fault' = FALSE )
        => ( /\ UNCHANGED tables
             /\ written' = 0
             /\ returned' = TRUE ) ]_vars

\* A silver run wrote nothing and returned True on a non-empty bronze table
\* whose ids are all in silver.
C7_Witness ==
    /\ last_call = "silver"
    /\ returned = TRUE
    /\ store_fault = FALSE
    /\ written = 0
    /\ bronze_transactions # {}
    /\ \A b \in bronze_transactions :
          \E s \in silver_transactions : s.transaction_id = b.transaction_id

\* C8: a successful silver run keeps the rows of silver and adds one row
\* for each bronze transaction_id that silver lacked, and no other; after
\* it the ids of silver are the ids of bronze, each on one row.
C8_SilverAntiJoin ==
    [][ (last_call' = "silver" /\ returned' = TRUE)
        => ( /\ silver_transactions \subseteq silver_transactions'
             /\ Ids(silver_transactions' \ silver_transactions)
                   = Ids(bronze_transactions) \ Ids(silver_transactions)
             /\ Ids(silver_transactions') = Ids(bronze_transactions')
             /\ Cardinality(silver_transactions')
                   = Cardinality(Ids(silver_transactions')) ) ]_vars

\* A successful silver run added a row to a silver table that had one.
C8_Witness ==
    /\ last_call = "silver"
    /\ returned = TRUE
    /\ written = 1
    /\ Cardinality(silver_transactions) = 2
    /\ Ids(silver_transactions) = Ids(bronze_transactions)

\* C9: the silver row of a refund with amount >= 0 has amount -|amount| and
\* the warning "Refund with non-negative amount"; the silver row of any
\* other bronze row has the bronze amount and not that warning.
C9_RefundCorrection ==
    \A s \in silver_transactions :
        \A b \in bronze_transactions :
            b.transaction_id = s.transaction_id =>
                IF b.transaction_type = "refund" /\ b.amount >= 0
                THEN /\ s.amount = (IF b.amount < 0 THEN b.amount ELSE -b.amount)
                     /\ HasFragment(s.validation_status, "Refund with non-negative amount")
                ELSE /\ s.amount = b.amount
                     /\ ~HasFragment(s.validation_status, "Refund with non-negative amount")

\* Silver holds the row of a refund whose bronze amount was positive, with
\* the amount negated.
C9_Witness ==
    \E s \in silver_transactions :
        \E b \in bronze_transactions :
            /\ b.transaction_id = s.transaction_id
            /\ b.transaction_type = "refund"
            /\ b.amount > 0
            /\ s.amount = -b.amount

\* C10: every silver row of transaction_type "refund" has an amount
\* strictly below zero.
C10_RefundStrictlyNegative ==
    \A s \in silver_transactions :
        s.transaction_type = "refund" => s.amount < 0

\* The spellings, among the status values of the model, that are one of
\* completed / pending / failed / reversed when compared without case.
C11_Spellings ==
    {"completed", "Completed", "COMPLETED", "pending", "Pending", "PENDING",
     "failed", "Failed", "FAILED", "reversed", "Reversed", "REVERSED"}

C11_NamesStatus(verdict, st) ==
    \E i \in 1..(Len(verdict) - 1) :
        verdict[i] = "Invalid status: " /\ verdict[i + 1] = st

\* C11: the silver row of a bronze row whose status is not, without regard
\* to case, one of completed/pending/failed/reversed has status "pending"
\* and a warning that names the bronze status; the silver row of any other
\* bronze row has the bronze status as written and no status warning; so
\* the status of every silver row is, without regard to case, in the set.
C11_StatusDefault ==
    \A s \in silver_transactions :
        /\ s.status \in C11_Spellings
        /\ \A b \in bronze_transactions :
              b.transaction_id = s.transaction_id =>
                  IF b.status \in C11_Spellings
                  THEN /\ s.status = b.status
                       /\ ~HasFragment(s.validation_status, "Invalid status: ")
                  ELSE /\ s.status = "pending"
                       /\ C11_NamesStatus(s.validation_status, b.status)

\* Silver holds the row of a bronze row of status "unknown_value", with
\* status "pending" and the warning that names "unknown_value".
C11_Witness ==
    \E s \in silver_transactions :
        \E b \in bronze_transactions :
            /\ b.transaction_id = s.transaction_id
            /\ b.status = "unknown_value"
            /\ s.status = "pending"
            /\ C11_NamesStatus(s.validation_status, "unknown_value")

\* The messages of the rules that fire for bronze row b, in the order
\* timestamp, refund, customer id, status, each rule stated on the row.
C12_Fired(b) ==
    (IF b.timestamp \in { GoodTs(Dates[i]) : i \in DOMAIN Dates } THEN <<>>
     ELSE << <<"Invalid timestamp: ", to_datetime_error(b.timestamp)>> >>)
    \o (IF b.transaction_type = "refund" /\ b.amount >= 0
        THEN << <<"Refund with non-negative amount">> >> ELSE <<>>)
    \o (IF b.customer_id \in {CUST1, CUST2} THEN <<>>
        ELSE << <<"Invalid customer ID format">> >>)
    \o (IF b.status \in C11_Spellings THEN <<>>
        ELSE << <<"Invalid status: ", b.status>> >>)

C12_Verdict(ms) ==
    CASE Len(ms) = 0 -> <<"VALID">>
      [] Len(ms) = 1 -> <<"WARNING: ">> \o ms[1]
      [] Len(ms) = 2 -> <<"WARNING: ">> \o ms[1] \o <<"; ">> \o ms[2]
      [] Len(ms) = 3 -> <<"WARNING: ">> \o ms[1] \o <<"; ">> \o ms[2]
                           \o <<"; ">> \o ms[3]
      [] Len(ms) = 4 -> <<"WARNING: ">> \o ms[1] \o <<"; ">> \o ms[2]
                           \o <<"; ">> \o ms[3] \o <<"; ">> \o ms[4]

\* C12: the validation_status of every silver row is "VALID" exactly when
\* none of the four rules fired for its bronze row, and is otherwise
\* "WARNING: " followed by the messages of the rules that fired, in the
\* order timestamp, refund, customer id, status, joined with "; ".
C12_ValidationVerdict ==
    \A s \in silver_transactions :
        \A b \in bronze_transactions :
            b.transaction_id = s.transaction_id =>
                /\ s.validation_status = C12_Verdict(C12_Fired(b))
                /\ (s.validation_status = <<"VALID">>) <=> (C12_Fired(b) = <<>>)

\* Silver holds a row for which all four rules fired.
C12_Witness ==
    \E s \in silver_transactions :
        \E b \in bronze_transactions :
            /\ b.transaction_id = s.transaction_id
            /\ Len(C12_Fired(b)) = 4
            /\ s.validation_status[1] = "WARNING: "
            /\ Len(s.validation_status) = 10

C13_Selected ==
    { b \in bronze_transactions : b.transaction_id \notin Ids(silver_transactions) }

\* C13: whatever anomalies the unprocessed bronze rows carry (a refund with
\* a non-negative amount, a status outside the set or missing, a
\* customer_id without the CUST prefix or missing, a timestamp that does
\* not parse), a silver run that meets no store fault returns True and
\* appends one silver row for each selected bronze row, the row of each
\* anomalous bronze row with a verdict other than "VALID".
C13_AnomaliesNeverAbort ==
    [][ (last_call' = "silver" /\ store_fault' = FALSE)
        => ( /\ returned' = TRUE
             /\ Ids(silver_transactions' \ silver_transactions)
                   = { b.transaction_id : b \in C13_Selected }
             /\ Cardinality(silver_transactions' \ silver_transactions)
                   = Cardinality(C13_Selected)
             /\ \A b \in C13_Selected :
                   C12_Fired(b) # <<>> =>
                       \E s \in silver_transactions' :
                           /\ s.transaction_id = b.transaction_id
                           /\ s.validation_status # <<"VALID">> ) ]_vars

\* C14: a silver run either appends a row for every bronze row it selected
\* and returns True, or returns False and leaves silver exactly as it was.
C14_SilverAtomic ==
    [][ last_call' = "silver"
        => \/ /\ returned' = TRUE
              /\ silver_transactions \subseteq silver_transactions'
              /\ Ids(silver_transactions' \ silver_transactions)
                    = { b.transaction_id : b \in C13_Selected }
              /\ Cardinality(silver_transactions' \ silver_transactions)
                    = Cardinality(C13_Selected)
           \/ /\ returned' = FALSE
              /\ silver_transactions' = silver_transactions ]_vars

\* A silver run failed, on a row and not on the store, while a well-formed
\* bronze row was waiting beside the row that raised; silver holds neither.
C14_Witness ==
    /\ last_call = "silver"
    /\ returned = FALSE
    /\ store_fault = FALSE
    /\ \E b \in bronze_transactions :
          /\ b.transaction_id \notin Ids(silver_transactions)
          /\ b.status # NULL
    /\ \E b \in bronze_transactions :
          /\ b.transaction_id \notin Ids(silver_transactions)
          /\ b.status = NULL

\* The frontier of a gold table: its greatest summary_date, NULL when the
\* table is empty.
FrontierOf(gold) ==
    IF gold = {} THEN NULL
    ELSE CHOOSE d \in { g.summary_date : g \in gold } :
            \A g \in gold : DateIndex(g.summary_date) <= DateIndex(d)

\* The VALID silver rows past the frontier of gold (all of them when gold
\* is empty).
PastFrontier(silver, gold) ==
    { s \in silver :
        /\ s.validation_status = <<"VALID">>
        /\ gold # {} => DateIndex(s.transaction_date) > DateIndex(FrontierOf(gold)) }

KeyInGold(s) ==
    <<s.transaction_date, s.transaction_type,
      IF s.category \in {NULL, ""} THEN "unknown" ELSE s.category>>

\* C15: a gold run either returns True with a gold row stored for the key
\* of every group it upserted, or returns False and leaves gold exactly as
\* it was, whichever upsert of the run failed.
C15_GoldAtomic ==
    [][ last_call' = "gold"
        => \/ /\ returned' = TRUE
              /\ \A s \in PastFrontier(silver_transactions, gold_daily_summary) :
                    \E g \in gold_daily_summary' : GoldKey(g) = KeyInGold(s)
           \/ /\ returned' = FALSE
              /\ gold_daily_summary' = gold_daily_summary ]_vars

\* A gold run that had rows of two keys or more to upsert failed on the
\* store, and gold holds no row of the run.
C15_Witness ==
    /\ last_call = "gold"
    /\ returned = FALSE
    /\ store_fault = TRUE
    /\ gold_daily_summary = {}
    /\ Cardinality({ KeyInGold(s) :
                       s \in PastFrontier(silver_transactions, gold_daily_summary) }) >= 2

\* C16: no step of any stage (bronze load, silver run, gold run, export),
\* successful or failed, removes a silver row or changes a field of one:
\* every row of silver is in silver, unchanged, after the step, and stays
\* the only row of its transaction_id.
C16_SilverAppendOnly ==
    [][ /\ silver_transactions \subseteq silver_transactions'
        /\ \A s \in silver_transactions :
              \A t \in silver_transactions' :
                  t.transaction_id = s.transaction_id => t = s ]_vars

\* Silver holds the rows of two ids and gold holds rows, after an export:
\* bronze, silver, gold and export have all run since silver got a row.
C16_Witness ==
    /\ Cardinality(silver_transactions) = 2
    /\ Ids(silver_transactions) = TransactionIds
    /\ gold_daily_summary # {}
    /\ last_call = "export"
    /\ returned = TRUE

\* The rows of set sel that form one group of the GROUP BY.
GroupOf(sel, s) ==
    { t \in sel : /\ t.transaction_date = s.transaction_date
                  /\ t.transaction_type = s.transaction_type
                  /\ t.category = s.category }

\* C17: a successful gold run aggregates exactly the VALID silver rows whose
\* transaction_date is past the greatest summary_date gold held at the
\* start (every VALID row when gold was empty), grouped by
\* (transaction_date, transaction_type, category): it reports one group per
\* distinct triple of those rows, every gold row it writes holds the count
\* and sum of one such group, every such row has a gold row for its key,
\* and a gold row whose key no such row has is left as it was.
C17_GoldFrontierSelection ==
    [][ (last_call' = "gold" /\ returned' = TRUE)
        => LET sel == PastFrontier(silver_transactions, gold_daily_summary)
           IN  /\ written' = Cardinality({ GroupOf(sel, s) : s \in sel })
               /\ \A g \in gold_daily_summary' \ gold_daily_summary :
                     \E s \in sel :
                         /\ KeyInGold(s) = GoldKey(g)
                         /\ g.transaction_count = Cardinality(GroupOf(sel, s))
                         /\ g.total_amount = SumAmount(GroupOf(sel, s))
               /\ \A s \in sel :
                     \E g \in gold_daily_summary' : GoldKey(g) = KeyInGold(s)
               /\ \A g \in gold_daily_summary :
                     g \in gold_daily_summary'
                     \/ \E s \in sel : KeyInGold(s) = GoldKey(g) ]_vars

\* A successful gold run wrote one group into a gold table that held a row
\* of an earlier date, while silver holds a VALID row of that earlier date.
C17_Witness ==
    /\ last_call = "gold"
    /\ returned = TRUE
    /\ written = 1
    /\ Cardinality(gold_daily_summary) = 2
    /\ \E s \in silver_transactions :
          /\ s.validation_status = <<"VALID">>
          /\ s.transaction_date = Dates[1]

\* C18: a VALID silver row that arrived with a transaction_date at or
\* before the greatest summary_date gold then held is never aggregated: in
\* every state every gold row is the count and the sum of silver rows that
\* did not arrive late.
C18_FrontierExclusion ==
    \A g \in gold_daily_summary :
        \E members \in SUBSET { s \in C2_ValidRowsOf(g) :
                                  s.transaction_id \notin arrived_late } :
            /\ members # {}
            /\ g.transaction_count = Cardinality(members)
            /\ g.total_amount = SumAmount(members)

\* A VALID row arrived late for a key gold holds, a gold run has succeeded
\* since, and the gold row of the key counts one row of the two in silver.
C18_Witness ==
    /\ last_call = "gold"
    /\ returned = TRUE
    /\ \E s \in silver_transactions :
          /\ s.transaction_id \in arrived_late
          /\ s.validation_status = <<"VALID">>
          /\ \E g \in gold_daily_summary :
                /\ GoldKey(g) = KeyInGold(s)
                /\ g.transaction_count = 1
                /\ Cardinality(C2_ValidRowsOf(g)) = 2

\* C19: in every reachable state gold holds at most one row for each
\* (summary_date, transaction_type, category).
C19_GoldKeyUnique ==
    \A g, h \in gold_daily_summary :
        ( /\ g.summary_date = h.summary_date
          /\ g.transaction_type = h.transaction_type
          /\ g.category = h.category ) => g = h

\* A gold run upserted two groups that fall on one key, gold holds one row
\* for it, and the run that came last was a second gold run that found
\* nothing to aggregate.
C19_Witness ==
    /\ last_call = "gold"
    /\ returned = TRUE
    /\ written = 0
    /\ Cardinality(gold_daily_summary) = 1
    /\ \E s, t \in silver_transactions :
          /\ s.validation_status = <<"VALID">>
          /\ t.validation_status = <<"VALID">>
          /\ s.category = ""
          /\ t.category = NULL
          /\ \A g \in gold_daily_summary :
                GoldKey(g) = KeyInGold(s) /\ GoldKey(g) = KeyInGold(t)

\* The VALID rows of a silver table that a fresh computation puts under the
\* key of gold row g: those of its date and type whose category, empty or
\* NULL read as "unknown", is its category.
C20_Matching(silver, g) ==
    { s \in silver :
        /\ s.validation_status = <<"VALID">>
        /\ s.transaction_date = g.summary_date
        /\ s.transaction_type = g.transaction_type
        /\ (IF s.category \in {NULL, ""} THEN "unknown" ELSE s.category) = g.category }

\* C20: after a successful gold run on an empty gold table, every gold row
\* holds the count and the sum of amount of all the VALID silver rows of
\* its date and type whose normalised category is the row's category.
C20_GoldMatchesFreshComputation ==
    [][ (gold_daily_summary = {} /\ last_call' = "gold" /\ returned' = TRUE)
        => \A g \in gold_daily_summary' :
              /\ g.transaction_count
                    = Cardinality(C20_Matching(silver_transactions', g))
              /\ g.total_amount
                    = SumAmount(C20_Matching(silver_transactions', g)) ]_vars

\* C26: bronze is append-only.  No step of either bronze loader, successful
\* or failed, removes a row that was in its bronze table before the step or
\* changes a field of one: every row of the table before is, field for
\* field, a row of the table after, also when the batch carries a row with
\* a stored transaction_id and other field values.
C26_BronzeAppendOnly ==
    [][/\ bronze_transactions \subseteq bronze_transactions'
       /\ bronze_raw \subseteq bronze_raw']_vars

\* A successful load of a one-row batch whose transaction_id is stored with
\* other field values: the stored row was kept, the batch row is not there.
C26_Witness ==
    /\ last_call = "bronze"
    /\ returned = TRUE
    /\ Len(input_df) = 1
    /\ input_df[1].transaction_id \in Ids(bronze_transactions)
    /\ input_df[1] \notin bronze_transactions

\* The customer_id is text that begins with the four characters CUST.
C27_StartsWithCUST(cust) ==
    /\ cust # NullCust
    /\ Len(cust) >= 4
    /\ <<cust[1], cust[2], cust[3], cust[4]>> = <<"C", "U", "S", "T">>

\* C27: the customer-id rule is advisory.  Every silver row carries the
\* customer_id of the bronze row it was made from, unchanged, and when that
\* customer_id does not start with "CUST" (a missing one included) the
\* silver row's validation_status holds "Invalid customer ID format".
C27_CustomerIdAdvisory ==
    \A s \in silver_transactions :
        \E b \in bronze_transactions :
            /\ b.transaction_id = s.transaction_id
            /\ s.customer_id = b.customer_id
            /\ ~C27_StartsWithCUST(b.customer_id) =>
                   HasFragment(s.validation_status, "Invalid customer ID format")

\* A silver run has written a row whose customer_id lacks the prefix: the
\* id is stored as it was and the warning is recorded.
C27_Witness ==
    /\ last_call = "silver"
    /\ returned = TRUE
    /\ \E s \in silver_transactions :
           /\ s.customer_id = NotCust
           /\ HasFragment(s.validation_status, "Invalid customer ID format")

\* C28: category normalisation.  No gold row ever has an empty-string or
\* NULL category, and after a successful gold run every VALID silver row
\* the run selected whose category is empty or NULL has a gold row of its
\* date and type under category "unknown".
C28_CategoryNormalised ==
    [][ /\ \A g \in gold_daily_summary' : g.category \notin {"", NULL}
        /\ (last_call' = "gold" /\ returned' = TRUE)
           => \A s \in PastFrontier(silver_transactions, gold_daily_summary) :
                 s.category \in {"", NULL}
                 => \E g \in gold_daily_summary' :
                       /\ g.summary_date = s.transaction_date
                       /\ g.transaction_type = s.transaction_type
                       /\ g.category = "unknown" ]_vars

\* A successful gold run over a VALID row with an empty category and a
\* VALID row with a NULL category: gold holds their date under "unknown".
C28_Witness ==
    /\ last_call = "gold"
    /\ returned = TRUE
    /\ \E s, t \in silver_transactions :
          /\ s.validation_status = <<"VALID">> /\ s.category = ""
          /\ t.validation_status = <<"VALID">> /\ t.category = NULL
          /\ \E g \in gold_daily_summary :
                /\ g.summary_date = s.transaction_date
                /\ g.category = "unknown"

\* C24: structural rejection.  A load of a batch that lacks one of the
\* required columns returns False and leaves bronze as it was.
C24_StructuralRejection ==
    [][ (\E df \in OneRowBatches, column \in ColumnsDrawn :
            process_bronze_layer_missing_column(df, column) /\ input_df' = df)
        => (returned' = FALSE /\ bronze_transactions' = bronze_transactions) ]_vars

\* The order in which run_pipeline is to start its stages.
C22_StageOrder == <<"bronze", "silver", "gold", "export">>

\* C22: orchestrator sequencing.  At every point of every run the stages
\* started so far are consecutive stages of the order bronze, silver, gold,
\* export, beginning with bronze (with silver when the run has no input);
\* once a stage has reported failure it is the last stage the run started,
\* the run is over, and its result names no export file.
C22_Sequencing ==
    LET skipped == IF run.has_input THEN 0 ELSE 1
    IN  /\ Len(run.started) + skipped <= Len(C22_StageOrder)
        /\ \A i \in DOMAIN run.started : run.started[i] = C22_StageOrder[i + skipped]
        /\ run.failed # "none"
           => /\ run.pc = "done"
              /\ run.started # <<>>
              /\ run.started[Len(run.started)] = run.failed
              /\ \A layer \in Layers : run.files[layer] = FALSE

\* A run with input whose silver stage reported failure has ended: bronze
\* and silver were started, nothing after them, and no file is named.
C22_Witness ==
    /\ run.pc = "done"
    /\ run.has_input
    /\ run.failed = "silver"
    /\ run.started = <<"bronze", "silver">>
    /\ run.files = NoFiles

\* C21: whole-pipeline idempotence.  When run_pipeline is run again on the
\* input batch of a run that succeeded, and no step of the second run meets
\* a store fault or an unreadable file, the second run succeeds too and
\* leaves the bronze, silver and gold tables as they were at its start.
C21_PipelineIdempotent ==
    (run.rerun /\ run.pc = "done" /\ ~run.env_fault)
    => /\ run.failed = "none"
       /\ tables = run.snapshot

\* A second run on a batch of two transactions has finished without fault;
\* all three tables hold rows.
C21_Witness ==
    /\ run.rerun
    /\ run.pc = "done"
    /\ ~run.env_fault
    /\ Cardinality(Ids(RowsOf(input_df))) = 2
    /\ Cardinality(bronze_transactions) = 2
    /\ silver_transactions # {}
    /\ gold_daily_summary # {}

\* C23: failure retains upstream data.  A silver stage that fails leaves
\* bronze as it was, and a gold stage that fails leaves bronze and silver as
\* they were; so when a run has ended on a failed silver or gold stage, the
\* transactions of its input batch, which its bronze stage committed or
\* found stored, are in bronze, and when it ended on a failed gold stage
\* every bronze transaction has the silver row its silver stage committed.
C23_UpstreamRetained ==
    [][ /\ (last_call' \in {"silver", "gold"} /\ returned' = FALSE)
           => bronze_transactions' = bronze_transactions
        /\ (last_call' = "gold" /\ returned' = FALSE)
           => silver_transactions' = silver_transactions
        /\ (run'.failed \in {"silver", "gold"} /\ run'.has_input)
           => Ids(RowsOf(input_df')) \subseteq Ids(bronze_transactions')
        /\ run'.failed = "gold"
           => Ids(bronze_transactions') \subseteq Ids(silver_transactions') ]_vars

\* A run whose bronze stage committed the two transactions of its batch
\* has ended on a failed silver stage; both are in bronze, neither in
\* silver.
C23_Witness ==
    /\ run.pc = "done"
    /\ run.failed = "silver"
    /\ Cardinality(Ids(RowsOf(input_df))) = 2
    /\ Ids(RowsOf(input_df)) \subseteq Ids(bronze_transactions)
    /\ Ids(RowsOf(input_df)) \cap Ids(silver_transactions) = {}

\* C29: export does not touch the store.  A call of export_data, for a
\* layer or for a name that is no layer, returning a file or None, leaves
\* bronze, silver and gold as they were; and when an export of a run fails,
\* after the gold stage of the run succeeded, the rows the stages of the run
\* committed are present: the transactions of the input batch in bronze, a
\* silver row for every bronze transaction, and a gold row for the key of
\* every VALID silver row that did not arrive behind the frontier.
C29_ExportLeavesStore ==
    [][ /\ last_call' = "export" => tables' = tables
        /\ (run.pc \in {"export_bronze", "export_silver", "export_gold"}
            /\ run' # run /\ returned' = FALSE)
           => /\ last_call' = "export"
              /\ "gold" \in RowsOf(run'.started)
              /\ run'.failed = "none"
              /\ run'.has_input
                 => Ids(RowsOf(input_df')) \subseteq Ids(bronze_transactions')
              /\ Ids(bronze_transactions') \subseteq Ids(silver_transactions')
              /\ \A s \in silver_transactions' :
                    (s.validation_status = <<"VALID">>
                     /\ s.transaction_id \notin arrived_late')
                    => \E g \in gold_daily_summary' : GoldKey(g) = KeyInGold(s) ]_vars

\* The run's export of the gold layer failed after its bronze and silver
\* exports succeeded; the run is over and all three tables hold rows.
C29_Witness ==
    /\ last_call = "export"
    /\ returned = FALSE
    /\ run.pc = "done"
    /\ run.files = [bronze |-> TRUE, silver |-> TRUE, gold |-> FALSE]
    /\ bronze_transactions # {}
    /\ silver_transactions # {}
    /\ gold_daily_summary # {}

\* C25: stages report failure by value.  Whatever a call of
\* process_bronze_layer, process_silver_layer, process_gold_layer or
\* ingest_data met, a failure to open the store connection included, the
\* call returned to its caller and let no exception through.
C25_FailureByValue ==
    last_call \in {"bronze", "silver", "gold", "ingest"} => raised = FALSE

\* C30: the exit code of the command tells whether the run succeeded: once
\* the command has exited, its code is 0 exactly when no stage of
\* run_pipeline failed.
C30_ExitCode ==
    run.pc = "done" => (run.exit_code = 0 <=> run.failed = "none")

\* C32: strictly downstream writes.  A step of the bronze stage leaves
\* silver and gold as they were, a step of the silver stage leaves bronze
\* and gold as they were, and a step of the gold stage leaves bronze and
\* silver as they were, success or failure; and what a stage adds comes
\* from the tables before it only: the bronze stage adds no id bronze held,
\* the silver stage adds rows for ids bronze holds and silver lacks, and the
\* gold stage writes keys of VALID silver rows past the frontier.
C32_DownstreamWrites ==
    [][ /\ bronze_transactions' # bronze_transactions
           => /\ last_call' = "bronze"
              /\ Ids(bronze_transactions' \ bronze_transactions)
                    \cap Ids(bronze_transactions) = {}
        /\ silver_transactions' # silver_transactions
           => /\ last_call' = "silver"
              /\ Ids(silver_transactions' \ silver_transactions)
                    \subseteq Ids(bronze_transactions) \ Ids(silver_transactions)
        /\ gold_daily_summary' # gold_daily_summary
           => /\ last_call' = "gold"
              /\ \A g \in gold_daily_summary' \ gold_daily_summary :
                    \E s \in PastFrontier(silver_transactions, gold_daily_summary) :
                        KeyInGold(s) = GoldKey(g)
        /\ last_call' = "bronze"
           => UNCHANGED <<silver_transactions, gold_daily_summary>>
        /\ last_call' = "silver"
           => UNCHANGED <<bronze_transactions, gold_daily_summary>>
        /\ last_call' = "gold"
           => UNCHANGED <<bronze_transactions, silver_transactions>> ]_vars

\* A silver run failed on a store that holds bronze rows it had not
\* processed and gold rows of an earlier run.
C32_Witness ==
    /\ last_call = "silver"
    /\ returned = FALSE
    /\ Ids(bronze_transactions) \ Ids(silver_transactions) # {}
    /\ silver_transactions # {}
    /\ gold_daily_summary # {}

\* C33: gold rows are never touched by a later run.  Every step keeps every
\* gold row as it is, and every row a gold run writes has a summary_date
\* strictly after every summary_date gold held before the run; so the
\* frontier never moves back.
C33_GoldRowsFinal ==
    [][ /\ gold_daily_summary \subseteq gold_daily_summary'
        /\ \A g \in gold_daily_summary' \ gold_daily_summary :
              \A old \in gold_daily_summary :
                  DateIndex(g.summary_date) > DateIndex(old.summary_date)
        /\ DateIndex(FrontierOf(gold_daily_summary'))
              >= DateIndex(FrontierOf(gold_daily_summary)) ]_vars

\* A gold run wrote the one group of a later date into a gold table that
\* held a row of an earlier date, which is still there.
C33_Witness ==
    /\ last_call = "gold"
    /\ returned = TRUE
    /\ written = 1
    /\ \E g, h \in gold_daily_summary :
          DateIndex(g.summary_date) < DateIndex(h.summary_date)

\* Among the selected rows, the group of s is written after every other
\* group of its gold key: the one other group a key can have is the group
\* with the NULL category, written before the group with the empty one.
C34_WrittenLast(sel, s) ==
    ~\E t \in sel : /\ KeyInGold(t) = KeyInGold(s)
                    /\ t.category = ""
                    /\ s.category = NULL

\* C34: upsert is replace, not merge.  After a successful gold run the row
\* stored for a key holds the count, total, minimum and maximum of the last
\* group the run wrote for that key and nothing of a group written before
\* it, also when a group with NULL category and a group with empty category
\* of one date and type both become key "unknown".
C34_UpsertReplaces ==
    [][ (last_call' = "gold" /\ returned' = TRUE)
        => LET sel == PastFrontier(silver_transactions, gold_daily_summary)
           IN  \A s \in sel :
                 C34_WrittenLast(sel, s)
                 => \A g \in gold_daily_summary' :
                       GoldKey(g) = KeyInGold(s)
                       => /\ g.transaction_count = Cardinality(GroupOf(sel, s))
                          /\ g.total_amount = SumAmount(GroupOf(sel, s))
                          /\ g.min_amount = MinAmount(GroupOf(sel, s))
                          /\ g.max_amount = MaxAmount(GroupOf(sel, s)) ]_vars

\* A gold run aggregated a VALID row with NULL category and a VALID row
\* with empty category of one date and type: the one row stored under
\* "unknown" counts one transaction, the amount of the row with the empty
\* category.
C34_Witness ==
    /\ last_call = "gold"
    /\ returned = TRUE
    /\ \E s, t \in silver_transactions :
          /\ s.validation_status = <<"VALID">> /\ s.category = NULL
          /\ t.validation_status = <<"VALID">> /\ t.category = ""
          /\ KeyInGold(s) = KeyInGold(t)
          /\ s.amount # t.amount
          /\ \E g \in gold_daily_summary :
                /\ GoldKey(g) = KeyInGold(t)
                /\ g.transaction_count = 1
                /\ g.total_amount = t.amount

\* Bronze holds a row that silver lacks and whose status is missing: the
\* row on which the status rule of the silver stage raises.
C38_Stuck(bronze, silver) ==
    \E b \in bronze : b.transaction_id \notin Ids(silver) /\ b.status = NULL

\* C38: a silver-stage failure is sticky.  Once bronze holds an unprocessed
\* row the silver stage fails on, no step changes that: the row stays
\* unprocessed, every silver run returns False, and silver gains no row,
\* whatever is loaded into bronze afterwards.
C38_SilverFailureSticky ==
    [][ C38_Stuck(bronze_transactions, silver_transactions)
        => /\ C38_Stuck(bronze_transactions', silver_transactions')
           /\ silver_transactions' = silver_transactions
           /\ last_call' = "silver" => returned' = FALSE ]_vars

\* Bronze holds a well-formed row beside the row with the missing status,
\* both unprocessed; a silver run met no store fault, failed, and the
\* well-formed row is not in silver.
C38_Witness ==
    /\ last_call = "silver"
    /\ returned = FALSE
    /\ store_fault = FALSE
    /\ C38_Stuck(bronze_transactions, silver_transactions)
    /\ \E b \in bronze_transactions :
          /\ b.status # NULL
          /\ b.transaction_id \notin Ids(silver_transactions)

\* The upload_layer_data call reached _upload_with_retry.
C35_Entered == upload.file_exists /\ upload.layer \notin {"none", "platinum"}

C35_Limit == IF upload.retry_attempts > 0 THEN upload.retry_attempts ELSE 0

\* What holds of the passes made so far in every state of a call.
C35_Bound ==
    /\ Len(upload.tries) <= C35_Limit
    /\ \A i \in DOMAIN upload.tries :
          /\ upload.tries[i].slept # 0
                <=> (~upload.tries[i].uploaded /\ i < upload.retry_attempts)
          /\ upload.tries[i].slept \in {0, 2 ^ i}
    /\ (upload.pc = "returned" /\ C35_Entered)
       => upload.result = (\E i \in DOMAIN upload.tries : upload.tries[i].verified)
    /\ (upload.pc = "returned" /\ C35_Entered /\ upload.result = FALSE)
       => Len(upload.tries) = C35_Limit

C36_NamesLayer(layer) == layer \in {"bronze", "silver", "gold", "Gold"}

\* C36: S3 upload success means verified.  _upload_with_retry has returned
\* True only when its last pass both uploaded without error and had
\* _verify_upload return True; upload_layer_data has returned an S3 URI
\* only in that case; and for a missing file or a name that is no layer it
\* has returned None with no upload attempted.
C36_SuccessVerified ==
    /\ upload.result = TRUE
       => /\ upload.tries # <<>>
          /\ upload.tries[Len(upload.tries)].uploaded
          /\ upload.tries[Len(upload.tries)].verified
    /\ upload.uri => (upload.pc = "returned" /\ upload.result = TRUE)
    /\ (upload.pc # "idle" /\ (~upload.file_exists \/ ~C36_NamesLayer(upload.layer)))
       => /\ upload.pc = "returned"
          /\ ~upload.uri
          /\ upload.tries = <<>>

\* upload_layer_data returned the URI of a gold file whose first upload
\* failed verification and whose second was verified.
C36_Witness ==
    /\ upload.pc = "returned"
    /\ upload.uri
    /\ upload.layer = "gold"
    /\ Len(upload.tries) = 2
    /\ upload.tries[1].uploaded /\ ~upload.tries[1].verified
    /\ upload.tries[2].verified

\* C31: in the script run_pipeline.py of the package a stage is entered only
\* if the previous stage reported success: the silver stage has been called
\* only after ingest_data returned True, the gold stage only after the
\* silver stage returned True, the exports only after the gold stage
\* returned True.
C31_Called(stage) == \E i \in DOMAIN script.called : script.called[i] = stage

C31_StageGate ==
    /\ C31_Called("silver") => script.result.bronze = "True"
    /\ C31_Called("gold") => script.result.silver = "True"
    /\ C31_Called("export") => script.result.gold = "True"

\* C37: a second call of aggregate_silver_to_gold over unchanged silver
\* data, gold holding the rows of the first call, returns True and leaves
\* gold with the same rows.
C37_Rerunnable ==
    [][(/\ last_call = "aggregate" /\ returned /\ gold_raw # EmptyBag
        /\ last_call' = "aggregate" /\ ~store_fault'
        /\ silver_raw' = silver_raw)
       => (returned' /\ gold_raw' = gold_raw)]_vars

\* C39: with two runs interleaved on one store, the read of the stored keys
\* and the append being separate steps, no state holds two bronze rows or
\* two silver rows with one transaction_id; an append that meets a key
\* stored since its read stores nothing and its stage returns False.
C39_Unique(table) ==
    \A r, q \in table : r.transaction_id = q.transaction_id => r = q

C39_Late(p, table) == \E r \in workers[p].rows : r.transaction_id \in Ids(table)

C39_SecondRejected ==
    \A p \in Procs :
        /\ (workers[p].pc = "bronze_append" /\ workers'[p].pc # "bronze_append"
              /\ C39_Late(p, bronze_transactions))
           => (/\ bronze_transactions' = bronze_transactions
               /\ workers'[p].ok.bronze = "False"
               /\ ~returned')
        /\ (workers[p].pc = "silver_append" /\ workers'[p].pc # "silver_append"
              /\ C39_Late(p, silver_transactions))
           => (/\ silver_transactions' = silver_transactions
               /\ workers'[p].ok.silver = "False"
               /\ ~returned')

C39_KeyUniqueness ==
    /\ [](C39_Unique(bronze_transactions) /\ C39_Unique(silver_transactions))
    /\ [][C39_SecondRejected]_vars

\* Both races have happened: one process had its bronze append refused and
\* one its silver append, while the rows of the process that appended first
\* are stored.
C39_Witness ==
    /\ \E p \in Procs : "bronze" \in workers[p].rejected
    /\ \E p \in Procs : "silver" \in workers[p].rejected
    /\ bronze_transactions # {}
    /\ silver_transactions # {}
====
